---- MODULE Spec2Model ----
(***************************************************************************)
(* AI Interview Coach: the API surface (backend/index.js), the store       *)
(* adapter (backend/firestoreService.js), the model client                 *)
(* (backend/geminiService.js and its browser twin), the guest storage      *)
(* (localStorageService.ts) and the two client session controllers         *)
(* (PracticeSession, LiveSession).                                         *)
(*                                                                         *)
(* A JavaScript object is a function from field names to values; a field   *)
(* that is absent is absent from the DOMAIN.  The hosted model is the      *)
(* environment: its replies honour the response schema (field names and    *)
(* types) and nothing else, or the call fails.                             *)
(***************************************************************************)
EXTENDS Integers, Sequences, FiniteSets, TLC

(***************************************************************************)
(* Bounds of the model.                                                    *)
(***************************************************************************)
\* documents the store may generate an id for
MaxSessions == 2
\* longest question array the hosted model returns
MaxQuestions == 2
\* requests served by the API in one behaviour
MaxRequests == 2
\* calls of the store adapter in one behaviour
MaxCalls == 3
\* auth-state callbacks the identity provider delivers
MaxCallbacks == 3
\* times the visitor asks to save the progress after login
MaxSaves == 2
\* answer requests the server handles at the same time
MaxHandlers == 2
\* latest creation time of a stored session
MaxTime == 2

(***************************************************************************)
(* Program constants.                                                      *)
(***************************************************************************)
\* "generate exactly 10 interview questions" (the prompt, nothing else)
RequestedQuestions == 10
\* "Overall Score (as 'overall_score') from 1-10" (the prompt, nothing else)
MinScore == 1
MaxScore == 10

Users == {"u1", "u2"}
\* ids the store generates (docRef.id of sessionsCollection.doc())
DocIdPool == <<"d1", "d2", "d3">>
\* an id a browser generated for a guest session (uuidv4)
GuestId == "g1"
AllIds == {DocIdPool[i] : i \in 1..Len(DocIdPool)} \cup {GuestId}

(***************************************************************************)
(* JavaScript values that are not always of one type.                      *)
(***************************************************************************)
Undefined == [t |-> "undefined"]
JNull == [t |-> "null"]
JArray(s) == [t |-> "array", v |-> s]
EmptyObject == [f \in {} |-> 0]

\* a value that may be absent
None == <<>>
Some(x) == <<x>>
IsSome(m) == Len(m) > 0
The(m) == m[1]

\* body.field of a parsed JSON body: undefined when the field is absent
Field(obj, f) == IF f \in DOMAIN obj THEN obj[f] ELSE Undefined

\* { ...a, ...b }, and the top-level effect of set(b, { merge: true }) on a
Merge(a, b) ==
  [f \in (DOMAIN a) \cup (DOMAIN b) |-> IF f \in DOMAIN b THEN b[f] ELSE a[f]]

RECURSIVE GCD(_, _)
GCD(a, b) == IF b = 0 THEN a ELSE GCD(b, a % b)

\* the number a / b (b > 0, a >= 0), kept exact as a reduced fraction
Quotient(a, b) ==
  LET g == GCD(a, b) IN [num |-> a \div g, den |-> b \div g]

\* the number 0
Zero == [num |-> 0, den |-> 1]

(***************************************************************************)
(* The hosted model (geminiService.js).  Each call either fails or returns *)
(* a value of the response schema.                                         *)
(***************************************************************************)
\* overall_score is { type: Type.NUMBER }: the range 1-10 is only asked for
ModelScores == {MinScore, MaxScore, MaxScore + 1}

GenQuestions(n) ==
  [i \in 1..n |-> [question |-> i, category |-> "Technical", difficulty |-> "Easy",
                    expected_answer_duration_minutes |-> 1]]

\* generateQuestions: JSON.parse of an array of question objects, any length
GenerateQuestionsOutcomes ==
  {[ok |-> FALSE]} \cup {[ok |-> TRUE, questions |-> GenQuestions(n)] : n \in 0..MaxQuestions}

\* the same, with the requested length among the replies
GenerateQuestionsOutcomesWide ==
  GenerateQuestionsOutcomes
    \cup {[ok |-> TRUE, questions |-> GenQuestions(RequestedQuestions)]}

\* evaluateAnswer: JSON.parse of a feedback object
EvaluateAnswerOutcomes ==
  {[ok |-> FALSE]} \cup {[ok |-> TRUE, feedback |-> [overall_score |-> s]] : s \in ModelScores}

EmptyReview ==
  [overall_summary |-> "The interview session was empty and could not be evaluated.",
   strengths |-> <<>>, areas_for_improvement |-> <<>>, non_verbal_feedback |-> <<>>]

ModelReview ==
  [overall_summary |-> "summary", strengths |-> <<"s">>,
   areas_for_improvement |-> <<"i">>, non_verbal_feedback |-> <<"n">>]

ReviewOutcomes == {[ok |-> FALSE], [ok |-> TRUE, feedback |-> ModelReview]}

\* !transcript || transcript.length === 0
TranscriptIsEmpty(transcript) ==
  \/ transcript.t \in {"undefined", "null"}
  \/ transcript.t = "array" /\ Len(transcript.v) = 0

\* generateLiveSessionReview: [ok, feedback, called]; called says whether the
\* hosted model was invoked
GenerateLiveSessionReview(transcript, outcome) ==
  IF TranscriptIsEmpty(transcript)
  THEN [ok |-> TRUE, feedback |-> EmptyReview, called |-> FALSE]
  ELSE IF outcome.ok
       THEN [ok |-> TRUE, feedback |-> outcome.feedback, called |-> TRUE]
       ELSE [ok |-> FALSE, called |-> TRUE]

(***************************************************************************)
(* The store adapter (firestoreService.js).  A store maps each user to a   *)
(* collection, a function from the ids of the documents that exist.        *)
(***************************************************************************)
EmptyStore == [u \in Users |-> EmptyObject]

Exists(st, userId, id) == id \in DOMAIN st[userId]

\* docRef.set(data): the document is replaced
SetDoc(st, userId, id, data) ==
  [st EXCEPT ![userId] =
     [k \in (DOMAIN @) \cup {id} |-> IF k = id THEN data ELSE @[k]]]

\* The store rejects a document that holds an undefined value
\* (ignoreUndefinedProperties is not set on new Firestore()).
HasUndefined(data) == \E f \in DOMAIN data \cap {"transcript"} : data[f] = Undefined

\* sessionsCollection.doc(): an id no document has
UsedIds(st) == UNION {DOMAIN st[u] : u \in Users}
CanGenerateId(st) ==
  \E i \in 1..MaxSessions : DocIdPool[i] \notin UsedIds(st)
NewId(st) ==
  DocIdPool[CHOOSE i \in 1..MaxSessions :
              /\ DocIdPool[i] \notin UsedIds(st)
              /\ \A j \in 1..(i - 1) : DocIdPool[j] \in UsedIds(st)]

\* createSession: [store, doc]
CreateSession(st, userId, sessionData) ==
  LET newSession == Merge(sessionData, [id |-> NewId(st), userId |-> userId])
  IN  [store |-> SetDoc(st, userId, newSession.id, newSession), doc |-> newSession]

\* getSession (the caller tests Exists for the null case)
GetSession(st, userId, id) == st[userId][id]

\* the documents of a collection in the order of a query without orderBy:
\* by document id
IdOrder == DocIdPool \o <<GuestId>>

Snapshot(st, userId) ==
  LET ids == SelectSeq(IdOrder, LAMBDA id : id \in DOMAIN st[userId])
  IN  [i \in 1..Len(ids) |-> st[userId][ids[i]]]

\* new Date(b.createdAt).getTime() - new Date(a.createdAt).getTime() is
\* positive: only when both are times; with a createdAt that is absent the
\* difference is NaN, which the sort takes for 0
ComesBefore(b, a) ==
  /\ "createdAt" \in DOMAIN a
  /\ "createdAt" \in DOMAIN b
  /\ b.createdAt > a.createdAt

\* place x behind the last element it does not come before (the sort is
\* stable; where a createdAt is absent the comparator is inconsistent and the
\* order is the engine's: this is the order of a straight insertion sort)
InsertSorted(sorted, x) ==
  LET keep == {i \in 0..Len(sorted) : \A j \in (i + 1)..Len(sorted) : ComesBefore(x, sorted[j])}
      k == CHOOSE i \in keep : \A j \in keep : i <= j
  IN  SubSeq(sorted, 1, k) \o <<x>> \o SubSeq(sorted, k + 1, Len(sorted))

RECURSIVE SortSessions(_, _)
SortSessions(sorted, rest) ==
  IF rest = <<>> THEN sorted
  ELSE SortSessions(InsertSorted(sorted, Head(rest)), Tail(rest))

\* getSessions: the snapshot, sorted in memory by createdAt descending
GetSessions(st, userId) ==
  IF Snapshot(st, userId) = <<>> THEN <<>>
  ELSE SortSessions(<<>>, Snapshot(st, userId))

\* updateSession: set with merge, then read back: [store, doc]
UpdateSessionReplaces(st, userId, id, updateData) ==
  [store |-> SetDoc(st, userId, id, updateData), doc |-> updateData]

UpdateSession(st, userId, id, updateData) ==
  LET old == IF Exists(st, userId, id) THEN st[userId][id] ELSE EmptyObject
      new == Merge(old, updateData)
  IN  [store |-> SetDoc(st, userId, id, new), doc |-> new]

\* importSession: [store, doc]
ImportSessionKeepsOwner(st, userId, sessionData) ==
  [store |-> SetDoc(st, userId, sessionData.id, sessionData), doc |-> sessionData]

ImportSessionTrustsBody(st, userId, sessionData) ==
  LET owner == IF "userId" \in DOMAIN sessionData THEN sessionData.userId ELSE userId
      sessionToImport == Merge(sessionData, [userId |-> owner])
  IN  [store |-> SetDoc(st, owner, sessionData.id, sessionToImport),
       doc |-> sessionToImport]

ImportSession(st, userId, sessionData) ==
  LET sessionToImport == Merge(sessionData, [userId |-> userId])
  IN  [store |-> SetDoc(st, userId, sessionData.id, sessionToImport),
       doc |-> sessionToImport]

(***************************************************************************)
(* The API surface (index.js).  A handler maps the store and the request   *)
(* to [store, status, body, modelCalled].                                  *)
(***************************************************************************)
Reply(st, status, body, called) ==
  [store |-> st, status |-> status, body |-> body, modelCalled |-> called]

Message(m) == [message |-> m]

\* POST /sessions; now is new Date() of the server, a time whose ISO text is
\* stored (the ISO texts order as the times do)
PostSessions(st, userId, body, outcome, now) ==
  IF \E f \in {"jobTitle", "jobDescription", "mode", "persona"} : f \notin DOMAIN body
  THEN Reply(st, 400, Message("Missing required fields for creating a session."), FALSE)
  ELSE IF body.mode = "classic" /\ ~outcome.ok
  THEN Reply(st, 500, Message("Failed to generate interview questions from Gemini."), TRUE)
  ELSE IF "company" \notin DOMAIN body
  THEN \* sessionData.company is undefined and docRef.set throws
       Reply(st, 500, Message("Cannot use undefined as a Firestore value"),
             body.mode = "classic")
  ELSE
    LET sessionData ==
          [jobTitle |-> body.jobTitle, company |-> body.company,
           jobDescription |-> body.jobDescription, persona |-> body.persona,
           resumeText |-> IF "resumeText" \in DOMAIN body THEN body.resumeText ELSE "",
           mode |-> body.mode, createdAt |-> now, status |-> "in-progress",
           currentQuestionIndex |-> 0]
        full == IF body.mode = "classic"
                THEN Merge(sessionData, [questions |-> outcome.questions])
                ELSE Merge(sessionData, [transcript |-> JArray(<<>>)])
        r == CreateSession(st, userId, full)
    IN  Reply(r.store, 201, r.doc, body.mode = "classic")

\* PUT /sessions/:id
PutSession(st, userId, id, updateData) ==
  IF ~Exists(st, userId, id)
  THEN Reply(st, 404, Message("Session not found."), FALSE)
  ELSE LET r == UpdateSession(st, userId, id, updateData)
       IN  Reply(r.store, 200, r.doc, FALSE)

\* POST /sessions/:id/answer
PostAnswer(st, userId, id, questionIndex, answer, outcome) ==
  IF ~Exists(st, userId, id)
  THEN Reply(st, 404, Message("Session not found."), FALSE)
  ELSE
    LET session == GetSession(st, userId, id) IN
    IF "questions" \notin DOMAIN session
    THEN \* session.questions[questionIndex] throws a TypeError
         Reply(st, 500, Message("TypeError"), FALSE)
    ELSE IF questionIndex < 0 \/ questionIndex >= Len(session.questions)
    THEN Reply(st, 400, Message("Question not found at that index."), FALSE)
    ELSE IF ~outcome.ok
    THEN Reply(st, 500, Message("Failed to evaluate the answer from Gemini."), TRUE)
    ELSE
      LET question == session.questions[questionIndex + 1]
          updatedQuestions ==
            [session.questions EXCEPT ![questionIndex + 1] =
               Merge(question, [userAnswer |-> answer, feedback |-> outcome.feedback])]
          r == UpdateSession(st, userId, id, [questions |-> updatedQuestions])
      IN  Reply(r.store, 200, r.doc, TRUE)

RECURSIVE SumScores(_)
SumScores(qs) ==
  IF qs = <<>> THEN 0 ELSE Head(qs).feedback.overall_score + SumScores(Tail(qs))

\* questions.filter(q => q.feedback)
Answered(questions) == SelectSeq(questions, LAMBDA q : "feedback" \in DOMAIN q)

\* totalScore / answeredQuestions.length, or 0
AverageScore(questions) ==
  LET answeredQuestions == Answered(questions)
      totalScore == SumScores(answeredQuestions)
  IN  IF Len(answeredQuestions) > 0
      THEN Quotient(totalScore, Len(answeredQuestions))
      ELSE Zero

\* POST /sessions/:id/finish
PostFinish(st, userId, id, body, outcome) ==
  IF ~Exists(st, userId, id)
  THEN Reply(st, 404, Message("Session not found."), FALSE)
  ELSE
    LET session == GetSession(st, userId, id)
        transcript == Field(body, "transcript")
        finalUpdate == [status |-> "completed"]
    IN
    IF session.mode = "classic"
    THEN IF "questions" \notin DOMAIN session
         THEN \* session.questions.filter throws a TypeError
              Reply(st, 500, Message("TypeError"), FALSE)
         ELSE LET r == UpdateSession(st, userId, id,
                         Merge(finalUpdate, [averageScore |-> AverageScore(session.questions)]))
              IN  Reply(r.store, 200, r.doc, FALSE)
    ELSE IF session.mode = "live"
    THEN LET g == GenerateLiveSessionReview(transcript, outcome) IN
         IF ~g.ok
         THEN Reply(st, 500, Message("Failed to generate the interview review from Gemini."), g.called)
         ELSE LET upd == Merge(finalUpdate,
                           [liveSessionFeedback |-> g.feedback, transcript |-> transcript])
              IN  IF HasUndefined(upd)
                  THEN \* docRef.set throws: the value undefined is no store value
                       Reply(st, 500, Message("Cannot use undefined as a Firestore value"), g.called)
                  ELSE LET r == UpdateSession(st, userId, id, upd)
                       IN  Reply(r.store, 200, r.doc, g.called)
    ELSE LET r == UpdateSession(st, userId, id, finalUpdate)
         IN  Reply(r.store, 200, r.doc, FALSE)

\* POST /sessions/import
PostImportAnyStatus(st, userId, sessionData) ==
  IF IF "id" \notin DOMAIN sessionData THEN TRUE ELSE sessionData.id = ""
  THEN Reply(st, 400, Message("Invalid session data provided for import."), FALSE)
  ELSE LET r == ImportSession(st, userId, sessionData)
       IN  Reply(r.store, 201, r.doc, FALSE)

PostImport(st, userId, sessionData) ==
  IF \/ IF "id" \notin DOMAIN sessionData THEN TRUE ELSE sessionData.id = ""
     \/ "status" \notin DOMAIN sessionData
     \/ sessionData.status # "completed"
  THEN Reply(st, 400, Message("Invalid session data provided for import."), FALSE)
  ELSE LET r == ImportSession(st, userId, sessionData)
       IN  Reply(r.store, 201, r.doc, FALSE)

\* GET /sessions/:id
GetSessionById(st, userId, id) ==
  IF Exists(st, userId, id)
  THEN Reply(st, 200, GetSession(st, userId, id), FALSE)
  ELSE Reply(st, 404,
             Message("Session not found or you do not have permission to view it."), FALSE)

\* GET /sessions
GetSessionsRoute(st, userId) == Reply(st, 200, GetSessions(st, userId), FALSE)

\* GET /health (outside the /api router)
GetHealth(st) == Reply(st, 200, "OK", FALSE)

(***************************************************************************)
(* Token verification (authMiddleware.js), in front of every /api route.   *)
(***************************************************************************)
\* what the Authorization header carries: nothing, a token that does not
\* verify, or the ID token of a user
Tokens ==
  {[kind |-> "missing"], [kind |-> "invalid"]} \cup {[kind |-> "valid", uid |-> u] : u \in Users}

\* verifyIdToken: [ok] or [ok, uid]
VerifyIdToken(token) ==
  IF token.kind = "valid"
  THEN [ok |-> TRUE, uid |-> token.uid]
  ELSE [ok |-> FALSE]

Unauthorized(st) == Reply(st, 401, Message("Unauthorized"), FALSE)

(***************************************************************************)
(* Store failures: the store refuses every access because the default      *)
(* credentials cannot be loaded, because the query needs an index (code 9, *)
(* a query only), or for another reason.                                    *)
(***************************************************************************)
Routes == {"list", "get", "create", "put", "answer", "finish", "import"}

Faults(route) ==
  {"credentials", "other"} \cup (IF route = "list" THEN {"index"} ELSE {})

CREDENTIALS_ERROR_MESSAGE == "Backend authentication with Google Cloud failed."

\* helpfulMessage
INDEX_ERROR_MESSAGE == "A backend database index is missing. The original error was: index"

\* error.message of the store's error
StoreErrorMessage(fault) == IF fault = "other" THEN "store error" ELSE fault

\* the message of the route's catch block
CatchMessage(route, fault) ==
  IF route = "list"
  THEN IF fault = "credentials" THEN CREDENTIALS_ERROR_MESSAGE
       ELSE IF fault = "index" THEN INDEX_ERROR_MESSAGE
       ELSE "Failed to fetch interview sessions."
  ELSE IF route = "get"
  THEN IF fault = "credentials" THEN CREDENTIALS_ERROR_MESSAGE
       ELSE "Failed to fetch interview session."
  ELSE IF route = "create"
  THEN IF fault = "credentials" THEN CREDENTIALS_ERROR_MESSAGE
       ELSE StoreErrorMessage(fault)
  ELSE IF route = "put"
  THEN IF fault = "credentials" THEN CREDENTIALS_ERROR_MESSAGE
       ELSE "Failed to update session."
  ELSE IF route = "import"
  THEN IF fault = "credentials" THEN CREDENTIALS_ERROR_MESSAGE
       ELSE "Failed to import session."
  ELSE IF fault = "credentials" THEN CREDENTIALS_ERROR_MESSAGE
       ELSE StoreErrorMessage(fault)

\* the reply of the route's catch block
StoreFailure(route, fault, st, called) ==
  Reply(st, 500, Message(CatchMessage(route, fault)), called)

\* create and import reach the store after validation (and create after the
\* hosted model): a reply that was decided before the store stays
AfterValidation(route, fault, st, reply) ==
  IF reply.status # 201
  THEN reply
  ELSE StoreFailure(route, fault, st, reply.modelCalled)

(***************************************************************************)
(* The server as a state machine: one action per route, each a whole       *)
(* handler.  The requests are those an authenticated client can send.      *)
(***************************************************************************)
VARIABLES
  store,    \* the document database
  req,      \* the request served last
  resp,     \* its response: [status, body, modelCalled]
  nreq      \* requests served so far

serverVars == <<store, req, resp, nreq>>

VARIABLES
  user,       \* useAuth().user: "none" for a guest, or the user's uid
  page,       \* the route shown: new, session, live, review, home, crashed
  routeId,    \* the :id of the route
  guest,      \* the guest storage item: None or Some(session)
  session,    \* PracticeSession's session state: None or Some(session)
  answer,     \* the textarea's text
  isLoading,  \* an answer is being evaluated
  isTimeUp,   \* the time's-up dialog is shown
  inflight,   \* the controller's pending asynchronous calls
  created,    \* guest sessions created so far
  lastEvent,  \* history: the handler that ran last
  submitted   \* history: per session id, the score of each index answered

clientVars ==
  <<user, page, routeId, guest, session, answer, isLoading, isTimeUp, inflight,
    created, lastEvent, submitted>>

VARIABLES
  transcript, \* LiveSession's transcriptRef.current
  applied,    \* history: the chunks of the message handled last
  nmsg,       \* messages that arrived so far
  nextStartTime, \* nextStartTimeRef.current
  currentTime,   \* outputAudioContext.currentTime
  sources,       \* sourcesRef.current: the source nodes started and not ended
  decoding,      \* the message handlers suspended at await decodeAudioData
  audioLog       \* history: arrivals of audio, starts of sources, interruptions

liveVars ==
  <<transcript, applied, nmsg, nextStartTime, currentTime, sources, decoding, audioLog>>

VARIABLES
  apiResult   \* history: what the API client made of the last fetch

apiVars == <<apiResult>>

VARIABLES
  status,                 \* LiveSession's status state
  isConfirmingEndSession, \* the "End Interview Session?" dialog is shown
  connected,              \* the live connection is open: its callbacks can fire
  awaiting                \* the awaits of LiveSession's handlers that are pending

controlVars == <<status, isConfirmingEndSession, connected, awaiting>>

VARIABLES
  loading,        \* AuthProvider's loading state: "Authenticating..." is shown
  authTimeout,    \* the fail-safe timer: pending, fired or cleared
  popup,          \* signInWithPopup is pending
  sessionToSave,  \* the storage item 'sessionToSaveAfterLogin': None or Some(entry)
  importing,      \* the auth callbacks suspended at await importSession(...)
  imports,        \* history: the entries sent to the import endpoint
  ncallbacks,     \* auth-state callbacks delivered so far
  nsaves          \* entries stored so far

authVars ==
  <<loading, authTimeout, popup, sessionToSave, importing, imports, ncallbacks, nsaves>>

VARIABLES
  answering,   \* the POST /sessions/:id/answer handlers waiting at an await
  answered     \* the answer requests that were replied to with 200

handlerVars == <<answering, answered>>

vars == <<serverVars, clientVars, liveVars, apiVars, controlVars, authVars, handlerVars>>

Modes == {"classic", "live"}

CreateBodies ==
  {[jobTitle |-> "job", company |-> "", jobDescription |-> "jd", persona |-> "p",
    resumeText |-> "", mode |-> m] : m \in Modes}
    \cup {[jobTitle |-> "job", jobDescription |-> "jd", persona |-> "p", mode |-> "live"],
          [jobTitle |-> "job"]}

\* bodies of PUT /sessions/:id: any partial session
PutBodies ==
  {[currentQuestionIndex |-> k] : k \in 0..MaxQuestions}
    \cup {[status |-> s] : s \in {"in-progress", "completed"}}
    \cup {[mode |-> m] : m \in Modes}

Entry(speaker, text) == [speaker |-> speaker, text |-> text]

\* bodies of POST /sessions/:id/finish: {}, {transcript: null}, {transcript: [...]}
FinishBodies ==
  {EmptyObject, [transcript |-> JNull], [transcript |-> JArray(<<>>)],
   [transcript |-> JArray(<<Entry("ai", "a")>>)]}

\* a completed guest session, as the browser stored it
GuestSession(id, mode) ==
  LET base == [id |-> id, jobTitle |-> "guest job", company |-> "", jobDescription |-> "jd",
               persona |-> "p", resumeText |-> "", mode |-> mode, createdAt |-> 0,
               status |-> "completed", currentQuestionIndex |-> 0]
  IN  IF mode = "classic"
      THEN Merge(base, [questions |-> <<>>, averageScore |-> Zero])
      ELSE Merge(base, [questions |-> <<>>, transcript |-> JArray(<<>>),
                        liveSessionFeedback |-> EmptyReview])

\* bodies of POST /sessions/import
ImportBodies ==
  LET good == {GuestSession(id, m) : id \in {GuestId, DocIdPool[1]}, m \in Modes}
  IN  good
        \cup {Merge(g, [userId |-> u]) : g \in good, u \in Users}
        \cup {Merge(GuestSession(GuestId, "classic"), [status |-> "in-progress"])}
        \cup {[status |-> "completed"], [id |-> "", status |-> "completed"]}

Serve(r, request) ==
  /\ nreq < MaxRequests
  /\ nreq' = nreq + 1
  /\ store' = r.store
  /\ resp' = [status |-> r.status, body |-> r.body, modelCalled |-> r.modelCalled]
  /\ req' = request
  /\ UNCHANGED <<clientVars, liveVars, apiVars, controlVars, authVars, handlerVars>>

\* apiRouter.use(authMiddleware): req.user of a request, None when the token
\* does not verify; nothing is kept between requests
AuthenticateCached(token) ==
  IF VerifyIdToken(token).ok
  THEN Some(VerifyIdToken(token).uid)
  ELSE IF "userId" \in DOMAIN req
  THEN Some(req.userId)
  ELSE None

Authenticate(token) ==
  IF VerifyIdToken(token).ok
  THEN Some(VerifyIdToken(token).uid)
  ELSE None

\* req.user.uid
Uid(token) == The(Authenticate(token))

\* the handler runs for an authenticated request only
Authenticated(token, route, handle) ==
  IF IsSome(Authenticate(token))
  THEN handle
  ELSE Serve(Unauthorized(store), [op |-> "rejected", route |-> route, token |-> token])

Create ==
  \E token \in Tokens :
    Authenticated(token, "create",
      \E body \in CreateBodies, outcome \in GenerateQuestionsOutcomesWide :
        /\ CanGenerateId(store)
        /\ Serve(PostSessions(store, Uid(token), body, outcome, nreq + 1),
                 [op |-> "create", token |-> token, userId |-> Uid(token), body |-> body]))

Put ==
  \E token \in Tokens :
    Authenticated(token, "put",
      \E id \in AllIds, body \in PutBodies :
        Serve(PutSession(store, Uid(token), id, body),
              [op |-> "put", token |-> token, userId |-> Uid(token), id |-> id, body |-> body]))

Answer ==
  \E token \in Tokens :
    Authenticated(token, "answer",
      \E id \in AllIds, questionIndex \in 0..MaxQuestions,
         outcome \in EvaluateAnswerOutcomes :
        Serve(PostAnswer(store, Uid(token), id, questionIndex, "answer", outcome),
              [op |-> "answer", token |-> token, userId |-> Uid(token), id |-> id,
               questionIndex |-> questionIndex]))

Finish ==
  \E token \in Tokens :
    Authenticated(token, "finish",
      \E id \in AllIds, body \in FinishBodies, outcome \in ReviewOutcomes :
        Serve(PostFinish(store, Uid(token), id, body, outcome),
              [op |-> "finish", token |-> token, userId |-> Uid(token), id |-> id,
               body |-> body]))

Import ==
  \E token \in Tokens :
    Authenticated(token, "import",
      \E body \in ImportBodies :
        Serve(PostImport(store, Uid(token), body),
              [op |-> "import", token |-> token, userId |-> Uid(token), body |-> body]))

Get ==
  \E token \in Tokens :
    Authenticated(token, "get",
      \E id \in AllIds :
        Serve(GetSessionById(store, Uid(token), id),
              [op |-> "get", token |-> token, userId |-> Uid(token), id |-> id]))

List ==
  \E token \in Tokens :
    Authenticated(token, "list",
      Serve(GetSessionsRoute(store, Uid(token)),
            [op |-> "list", token |-> token, userId |-> Uid(token)]))

Health ==
  \E token \in Tokens :
    Serve(GetHealth(store), [op |-> "health", token |-> token])

\* a request served while the store refuses every access
StoreFault ==
  \E token \in Tokens, route \in Routes :
    Authenticated(token, route,
      \E fault \in Faults(route) :
        LET failed(reached) ==
              [op |-> "fault", route |-> route, fault |-> fault, token |-> token,
               userId |-> Uid(token), reached |-> reached]
        IN
        IF route = "create"
        THEN \E body \in CreateBodies, outcome \in GenerateQuestionsOutcomes :
               /\ CanGenerateId(store)
               /\ LET r == PostSessions(store, Uid(token), body, outcome, nreq + 1)
                  IN  Serve(AfterValidation(route, fault, store, r),
                            failed(r.status = 201))
        ELSE IF route = "import"
        THEN \E body \in ImportBodies :
               LET r == PostImport(store, Uid(token), body)
               IN  Serve(AfterValidation(route, fault, store, r), failed(r.status = 201))
        ELSE \* the handler reads the store first
             Serve(StoreFailure(route, fault, store, FALSE), failed(TRUE)))

ServerNext ==
  Create \/ Put \/ Answer \/ Finish \/ Import \/ Get \/ List \/ Health \/ StoreFault

(***************************************************************************)
(* Guest storage (localStorageService.ts): one item under the fixed key.   *)
(***************************************************************************)

\* JSON.parse(JSON.stringify(session)): a field whose value is undefined is
\* left out of the text; the other values of a session are kept
JsonRoundTrip(sessionData) ==
  LET dropped == {f \in DOMAIN sessionData \cap {"transcript", "liveSessionFeedback"} :
                    sessionData[f] = Undefined}
  IN  [f \in (DOMAIN sessionData) \ dropped |-> sessionData[f]]

\* saveGuestSession: setItem replaces the item by the whole session; when
\* setItem throws (written is FALSE) the error is logged and the item stays
SaveGuestSessionMerges(item, sessionData, written) ==
  IF written
  THEN Some(Merge(IF IsSome(item) THEN The(item) ELSE EmptyObject,
                  JsonRoundTrip(sessionData)))
  ELSE item

SaveGuestSession(item, sessionData, written) ==
  IF written THEN Some(JsonRoundTrip(sessionData)) ELSE item

\* the controllers below are modelled with a storage that accepts the write

\* getGuestSession: the parsed item, or null
GetGuestSession(item) == item

\* sessions a caller may pass: of either id and status, with the optional
\* fields absent, undefined or set
GuestSessionArgs ==
  {Merge([id |-> id, mode |-> "live", status |-> st, currentQuestionIndex |-> 0,
          questions |-> <<>>], optional) :
     id \in {"g1", "g2"}, st \in {"in-progress", "completed"},
     optional \in {EmptyObject, [transcript |-> Undefined],
                   [transcript |-> JArray(<<>>)],
                   [transcript |-> JArray(<<>>), liveSessionFeedback |-> EmptyReview]}}

\* a caller of localStorageService: one saveGuestSession(session) call
SaveGuest ==
  \E sessionData \in GuestSessionArgs, written \in BOOLEAN :
    /\ guest' = SaveGuestSession(guest, sessionData, written)
    /\ lastEvent' = [name |-> "saved", argument |-> sessionData, written |-> written,
                     before |-> GetGuestSession(guest)]
    /\ UNCHANGED <<user, page, routeId, session, answer, isLoading, isTimeUp, inflight,
                   created, submitted>>
    /\ UNCHANGED <<serverVars, liveVars, apiVars, controlVars, authVars, handlerVars>>

GuestNext == SaveGuest

(***************************************************************************)
(* The classic controller (PracticeSession) and the form that creates a    *)
(* session (NewInterview), for a guest or for the signed-in user.          *)
(***************************************************************************)
\* uuidv4() of the guest flow
GuestIdPool == <<"g1", "g2", "g3">>

\* at most this many calls of the controller are pending at once
MaxInflight == 2

AnswerTexts == {"", "my answer"}

Event(name) == [name |-> name]

\* session.questions[session.currentQuestionIndex] is an object
HasCurrent(s) ==
  /\ "questions" \in DOMAIN s
  /\ s.currentQuestionIndex + 1 \in 1..Len(s.questions)

CurrentQuestion(s) == s.questions[s.currentQuestionIndex + 1]

\* !!question.userAnswer
HasAnswer(q) == "userAnswer" \in DOMAIN q /\ q.userAnswer # ""

IsLast(s) == s.currentQuestionIndex = Len(s.questions) - 1

\* the session effect: setAnswer(question.userAnswer || '')
AnswerShown(s) ==
  IF HasAnswer(CurrentQuestion(s)) THEN CurrentQuestion(s).userAnswer ELSE ""

Mounted(id) == page = "session" /\ routeId = id /\ IsSome(session)

\* setSession(s) and the render that follows: the effect reads
\* session.questions[session.currentQuestionIndex] and throws when there is none
ShowSession(s) ==
  IF HasCurrent(s)
  THEN /\ session' = Some(s)
       /\ answer' = AnswerShown(s)
       /\ page' = page
  ELSE /\ session' = None
       /\ answer' = ""
       /\ page' = "crashed"

\* navigate(to): PracticeSession unmounts
LeaveSession(to) ==
  /\ page' = to
  /\ session' = None
  /\ answer' = ""

Log(id, index, score) ==
  Merge(submitted,
        [k \in {id} |-> Merge(IF id \in DOMAIN submitted THEN submitted[id] ELSE EmptyObject,
                              [i \in {index} |-> score])])

\* LiveSession mounts: its state is the initial one, and the awaits of an
\* earlier instance settle without effect on it
MountLiveSession(mounts) ==
  IF mounts
  THEN /\ status' = "loading"
       /\ isConfirmingEndSession' = FALSE
       /\ connected' = FALSE
       /\ awaiting' = {[op EXCEPT !.stale = TRUE] : op \in awaiting}
  ELSE UNCHANGED controlVars

\* NewInterview.handleSubmit
HandleSubmit ==
  \E mode \in Modes, outcome \in GenerateQuestionsOutcomes :
    /\ page = "new"
    /\ LET sessionDetails ==
             [jobTitle |-> "job", company |-> "", jobDescription |-> "jd",
              persona |-> "p", resumeText |-> "", mode |-> mode]
       IN
       IF user # "none"
       THEN /\ CanGenerateId(store)
            /\ LET r == PostSessions(store, user, sessionDetails, outcome, nreq + 1) IN
               /\ store' = r.store
               /\ IF r.status = 201
                  THEN /\ page' = IF r.body.mode = "classic" THEN "session" ELSE "live"
                       /\ routeId' = r.body.id
                       /\ lastEvent' = [name |-> "created", id |-> r.body.id]
                  ELSE /\ UNCHANGED <<page, routeId>>
                       /\ lastEvent' = Event("createFailed")
            /\ UNCHANGED <<guest, created>>
       ELSE /\ created < MaxSessions
            /\ IF mode = "classic" /\ ~outcome.ok
               THEN /\ UNCHANGED <<page, routeId, guest, created>>
                    /\ lastEvent' = Event("createFailed")
               ELSE LET base == Merge(sessionDetails,
                                  [id |-> GuestIdPool[created + 1], createdAt |-> 0,
                                   status |-> "in-progress",
                                   currentQuestionIndex |-> 0, questions |-> <<>>])
                        guestSession ==
                          IF mode = "classic"
                          THEN Merge(base, [questions |-> outcome.questions])
                          ELSE Merge(base, [transcript |-> JArray(<<>>)])
                    IN  /\ guest' = SaveGuestSession(guest, guestSession, TRUE)
                        /\ created' = created + 1
                        /\ page' = IF mode = "classic" THEN "session" ELSE "live"
                        /\ routeId' = guestSession.id
                        /\ lastEvent' = [name |-> "created", id |-> guestSession.id]
            /\ UNCHANGED store
    /\ MountLiveSession(page = "new" /\ page' = "live")
    /\ UNCHANGED <<user, session, answer, isLoading, isTimeUp, inflight, submitted>>
    /\ UNCHANGED <<req, resp, nreq, liveVars, apiVars, authVars, handlerVars>>

\* PracticeSession's fetchSessionData, run when the page mounts
FetchSessionData ==
  /\ page = "session"
  /\ session = None
  /\ LET found == IF user # "none"
                  THEN Exists(store, user, routeId)
                  ELSE IsSome(guest) /\ The(guest).id = routeId
         data == IF user # "none" THEN GetSession(store, user, routeId) ELSE The(guest)
     IN  IF ~found
         THEN IF user # "none"
              THEN UNCHANGED <<page, session, answer>>   \* setError
              ELSE LeaveSession("home")
         ELSE IF data.mode # "classic" \/ data.status = "completed"
              THEN LeaveSession("home")
              ELSE ShowSession(data)
  /\ lastEvent' = Event("loaded")
  /\ UNCHANGED <<user, routeId, guest, isLoading, isTimeUp, inflight, created, submitted>>
  /\ UNCHANGED <<serverVars, liveVars, apiVars, controlVars, authVars, handlerVars>>

\* the textarea's onChange
TypeAnswer ==
  \E text \in AnswerTexts :
    /\ page = "session" /\ IsSome(session)
    /\ ~isLoading
    /\ text # answer
    /\ answer' = text
    /\ lastEvent' = Event("typed")
    /\ UNCHANGED <<user, page, routeId, guest, session, isLoading, isTimeUp, inflight,
                   created, submitted>>
    /\ UNCHANGED <<serverVars, liveVars, apiVars, controlVars, authVars, handlerVars>>

\* the countdown reaches 0: setIsTimeUp(true)
TimeUp ==
  /\ page = "session" /\ IsSome(session)
  /\ CurrentQuestion(The(session)).expected_answer_duration_minutes > 0
  /\ ~isTimeUp
  /\ isTimeUp' = TRUE
  /\ lastEvent' = Event("timeUp")
  /\ UNCHANGED <<user, page, routeId, guest, session, answer, isLoading, inflight,
                 created, submitted>>
  /\ UNCHANGED <<serverVars, liveVars, apiVars, controlVars, authVars, handlerVars>>

\* handleExtendTime
ExtendTime ==
  /\ page = "session" /\ IsSome(session)
  /\ isTimeUp
  /\ isTimeUp' = FALSE
  /\ lastEvent' = Event("extended")
  /\ UNCHANGED <<user, page, routeId, guest, session, answer, isLoading, inflight,
                 created, submitted>>
  /\ UNCHANGED <<serverVars, liveVars, apiVars, controlVars, authVars, handlerVars>>

\* handleSubmitAnswer up to its first await; the closure holds the session
\* and the answer of the render the click happened in
HandleSubmitAnswer ==
  /\ answer # ""
  /\ Cardinality(inflight) < MaxInflight
  /\ isLoading' = TRUE
  /\ isTimeUp' = FALSE
  /\ inflight' = inflight \cup
       {[kind |-> IF user # "none" THEN "answer" ELSE "evaluate", id |-> routeId,
         session |-> The(session), answer |-> answer]}
  /\ lastEvent' = Event("submit")
  /\ UNCHANGED <<user, page, routeId, guest, session, answer, created, submitted>>
  /\ UNCHANGED <<serverVars, liveVars, apiVars, controlVars, authVars, handlerVars>>

\* the "Submit & Next" button
ClickSubmit ==
  /\ page = "session" /\ IsSome(session)
  /\ ~IsLast(The(session))
  /\ ~isLoading
  /\ ~HasAnswer(CurrentQuestion(The(session)))
  /\ HandleSubmitAnswer

\* the "Submit Answer" button of the time's-up dialog
ModalSubmit ==
  /\ page = "session" /\ IsSome(session)
  /\ isTimeUp
  /\ HandleSubmitAnswer

\* totalScore / answeredQuestions.length of handleFinish
GuestFinished(s) ==
  Merge(s, [status |-> "completed", averageScore |-> AverageScore(s.questions)])

\* the guest flow of handleSubmitAnswer after evaluateAnswer settles:
\* navigateQuestion and handleFinish read the closure's session
CompleteEvaluate ==
  \E op \in inflight, outcome \in EvaluateAnswerOutcomes :
    /\ op.kind = "evaluate"
    /\ inflight' = inflight \ {op}
    /\ isLoading' = FALSE
    /\ IF ~outcome.ok
       THEN /\ UNCHANGED <<guest, session, answer, page, submitted>>
            /\ lastEvent' = Event("submitFailed")
       ELSE LET s == op.session
                i == s.currentQuestionIndex
                updatedQuestions ==
                  [s.questions EXCEPT ![i + 1] =
                     Merge(@, [userAnswer |-> op.answer, feedback |-> outcome.feedback])]
                withAnswer == Merge(s, [questions |-> updatedQuestions])
            IN  /\ submitted' = Log(op.id, i, outcome.feedback.overall_score)
                /\ lastEvent' = [name |-> "submitDone", id |-> op.id, index |-> i,
                                 answer |-> op.answer,
                                 score |-> outcome.feedback.overall_score,
                                 last |-> IsLast(s)]
                /\ IF ~IsLast(s)
                   THEN LET moved == Merge(s, [currentQuestionIndex |-> i + 1]) IN
                        /\ guest' = SaveGuestSession(guest, moved, TRUE)
                        /\ IF Mounted(op.id)
                           THEN ShowSession(moved)
                           ELSE UNCHANGED <<session, answer, page>>
                   ELSE /\ guest' = SaveGuestSession(guest, GuestFinished(s), TRUE)
                        /\ LeaveSession("review")
    /\ UNCHANGED <<user, routeId, isTimeUp, created>>
    /\ UNCHANGED <<serverVars, liveVars, apiVars, controlVars, authVars, handlerVars>>

\* the signed-in flow of handleSubmitAnswer after submitAnswer settles
CompleteAnswer ==
  \E op \in inflight, outcome \in EvaluateAnswerOutcomes :
    /\ op.kind = "answer"
    /\ LET s == op.session
           i == s.currentQuestionIndex
           r == PostAnswer(store, user, op.id, i, op.answer, outcome)
       IN  /\ store' = r.store
           /\ IF r.status # 200
              THEN /\ inflight' = inflight \ {op}
                   /\ isLoading' = FALSE
                   /\ lastEvent' = Event("submitFailed")
                   /\ UNCHANGED <<session, answer, page, submitted>>
              ELSE /\ submitted' = Log(op.id, i, outcome.feedback.overall_score)
                   /\ lastEvent' = Event("answered")
                   /\ IF Mounted(op.id)
                      THEN ShowSession(r.body)
                      ELSE UNCHANGED <<session, answer, page>>
                   /\ LET info == [id |-> op.id, index |-> i, answer |-> op.answer,
                                   score |-> outcome.feedback.overall_score]
                      IN  IF ~IsLast(s)
                          THEN /\ inflight' = (inflight \ {op}) \cup
                                    {[kind |-> "nav", id |-> op.id, newIndex |-> i + 1,
                                      from |-> Some(info)]}
                               /\ isLoading' = FALSE
                          ELSE /\ inflight' = (inflight \ {op}) \cup
                                    {[kind |-> "finish", id |-> op.id, from |-> Some(info)]}
                               /\ isLoading' = isLoading
    /\ UNCHANGED <<user, routeId, guest, isTimeUp, created>>
    /\ UNCHANGED <<req, resp, nreq, liveVars, apiVars, controlVars, authVars, handlerVars>>

\* navigateQuestion(newIndex) as called by handleNext and handlePrev
NavigateQuestion(newIndex, name) ==
  LET s == The(session) IN
  /\ lastEvent' = Event(name)
  /\ IF user # "none"
     THEN /\ Cardinality(inflight) < MaxInflight
          /\ inflight' = inflight \cup
               {[kind |-> "nav", id |-> routeId, newIndex |-> newIndex, from |-> None]}
          /\ UNCHANGED <<guest, session, answer, page>>
     ELSE LET moved == Merge(s, [currentQuestionIndex |-> newIndex]) IN
          /\ guest' = SaveGuestSession(guest, moved, TRUE)
          /\ ShowSession(moved)
          /\ UNCHANGED inflight
  /\ UNCHANGED <<user, routeId, isLoading, isTimeUp, created, submitted>>
  /\ UNCHANGED <<serverVars, liveVars, apiVars, controlVars, authVars, handlerVars>>

\* the Prev button is not disabled
PrevEnabled(s) == ~(s.currentQuestionIndex = 0 \/ isLoading)

\* the Next button is not disabled
NextEnabled(s) == ~(IsLast(s) \/ isLoading \/ HasAnswer(CurrentQuestion(s)))

\* handleNext
ClickNext ==
  /\ page = "session" /\ IsSome(session)
  /\ NextEnabled(The(session))
  /\ The(session).currentQuestionIndex + 1 < Len(The(session).questions)
  /\ NavigateQuestion(The(session).currentQuestionIndex + 1, "next")

\* handlePrev
ClickPrev ==
  /\ page = "session" /\ IsSome(session)
  /\ PrevEnabled(The(session))
  /\ The(session).currentQuestionIndex - 1 >= 0
  /\ NavigateQuestion(The(session).currentQuestionIndex - 1, "prev")

\* the PUT of navigateQuestion settles
CompleteNav ==
  \E op \in inflight :
    /\ op.kind = "nav"
    /\ inflight' = inflight \ {op}
    /\ LET r == PutSession(store, user, op.id, [currentQuestionIndex |-> op.newIndex])
       IN  /\ store' = r.store
           /\ IF r.status = 200
              THEN /\ lastEvent' = IF IsSome(op.from)
                                   THEN Merge(The(op.from), [name |-> "submitDone", last |-> FALSE])
                                   ELSE Event("navDone")
                   /\ IF Mounted(op.id)
                      THEN ShowSession(r.body)
                      ELSE UNCHANGED <<session, answer, page>>
              ELSE /\ lastEvent' = Event("navFailed")
                   /\ UNCHANGED <<session, answer, page>>
    /\ UNCHANGED <<user, routeId, guest, isLoading, isTimeUp, created, submitted>>
    /\ UNCHANGED <<req, resp, nreq, liveVars, apiVars, controlVars, authVars, handlerVars>>

\* the "Finish & Review" button: handleFinish
ClickFinish ==
  /\ page = "session" /\ IsSome(session)
  /\ IsLast(The(session))
  /\ ~isLoading
  /\ HasAnswer(CurrentQuestion(The(session)))
  /\ IF user # "none"
     THEN /\ Cardinality(inflight) < MaxInflight
          /\ inflight' = inflight \cup {[kind |-> "finish", id |-> routeId, from |-> None]}
          /\ lastEvent' = Event("finish")
          /\ UNCHANGED <<guest, session, answer, page>>
     ELSE /\ guest' = SaveGuestSession(guest, GuestFinished(The(session)), TRUE)
          /\ lastEvent' = [name |-> "finishDone", id |-> routeId]
          /\ LeaveSession("review")
          /\ UNCHANGED inflight
  /\ UNCHANGED <<user, routeId, isLoading, isTimeUp, created, submitted>>
  /\ UNCHANGED <<serverVars, liveVars, apiVars, controlVars, authVars, handlerVars>>

\* finishApiSession(id) settles: the body is { transcript: undefined }, that is {}
CompleteFinish ==
  \E op \in inflight :
    /\ op.kind = "finish"
    /\ inflight' = inflight \ {op}
    /\ LET r == PostFinish(store, user, op.id, EmptyObject, [ok |-> FALSE])
       IN  /\ store' = r.store
           /\ IF r.status = 200
              THEN /\ lastEvent' = IF IsSome(op.from)
                                   THEN Merge(The(op.from), [name |-> "submitDone", last |-> TRUE])
                                   ELSE [name |-> "finishDone", id |-> op.id]
                   /\ LeaveSession("review")
              ELSE /\ lastEvent' = Event("finishFailed")
                   /\ UNCHANGED <<session, answer, page>>
    /\ isLoading' = IF IsSome(op.from) THEN FALSE ELSE isLoading
    /\ UNCHANGED <<user, routeId, guest, isTimeUp, created, submitted>>
    /\ UNCHANGED <<req, resp, nreq, liveVars, apiVars, controlVars, authVars, handlerVars>>

\* the user opens the form again
GoNew ==
  /\ page \in {"review", "home", "live"}
  /\ page' = "new"
  /\ lastEvent' = Event("new")
  /\ session' = None                                          \* the page unmounts
  /\ connected' = IF page = "live" THEN FALSE ELSE connected   \* LiveSession's cleanup
  /\ UNCHANGED <<user, routeId, guest, answer, isLoading, isTimeUp, inflight,
                 created, submitted>>
  /\ UNCHANGED <<status, isConfirmingEndSession, awaiting>>
  /\ UNCHANGED <<serverVars, liveVars, apiVars, authVars, handlerVars>>

(***************************************************************************)
(* Opening a session page by its address (App.tsx: /session/:id,           *)
(* /live/:id, /review/:id).  Each page keeps the session it loaded in a    *)
(* state of its own, which is empty when the page mounts.                  *)
(***************************************************************************)
\* ids an address may name: any id of the store or of a guest session
OpenIds == AllIds \cup {GuestIdPool[i] : i \in 1..Len(GuestIdPool)}

\* the id resolves: getSession(id) of the signed-in user answers 200, or the
\* guest session in storage has this id
Resolves(id) ==
  IF user # "none"
  THEN Exists(store, user, id)
  ELSE IF IsSome(guest) THEN The(guest).id = id ELSE FALSE

OpenUrl ==
  \E to \in {"session", "live", "review"}, id \in OpenIds :
    /\ page' = to
    /\ routeId' = id
    /\ session' = None
    /\ answer' = ""
    /\ lastEvent' = Event("opened")
    /\ MountLiveSession(to = "live")
    /\ UNCHANGED <<user, guest, isLoading, isTimeUp, inflight, created, submitted>>
    /\ UNCHANGED <<serverVars, liveVars, apiVars, authVars, handlerVars>>

\* LiveSession's fetchSessionData, run when the page mounts
FetchLiveSessionData ==
  /\ page = "live"
  /\ session = None
  /\ status = "loading"
  /\ IF ~Resolves(routeId)
     THEN IF user # "none"
          THEN /\ UNCHANGED <<page, session>>   \* setError
               /\ status' = "error"
          ELSE /\ page' = "home"
               /\ session' = None
               /\ status' = status
     ELSE /\ session' = Some(IF user # "none" THEN GetSession(store, user, routeId)
                                               ELSE The(guest))
          /\ page' = page
          /\ status' = "idle"
  /\ lastEvent' = Event("loaded")
  /\ UNCHANGED <<user, routeId, guest, answer, isLoading, isTimeUp, inflight, created,
                 submitted>>
  /\ UNCHANGED <<isConfirmingEndSession, connected, awaiting>>
  /\ UNCHANGED <<serverVars, liveVars, apiVars, authVars, handlerVars>>

\* Review's fetchSessionData, run when the page mounts
FetchReviewData ==
  /\ page = "review"
  /\ session = None
  /\ IF ~Resolves(routeId)
     THEN IF user # "none"
          THEN UNCHANGED <<page, session>>   \* setError
          ELSE /\ page' = "home"
               /\ session' = None
     ELSE LET data == IF user # "none" THEN GetSession(store, user, routeId)
                                        ELSE The(guest)
          IN  IF data.status # "completed"
              THEN /\ page' = "home"
                   /\ session' = None
              ELSE /\ session' = Some(data)
                   /\ page' = page
  /\ lastEvent' = Event("loaded")
  /\ UNCHANGED <<user, routeId, guest, answer, isLoading, isTimeUp, inflight, created,
                 submitted>>
  /\ UNCHANGED <<serverVars, liveVars, apiVars, controlVars, authVars, handlerVars>>

PagesNext ==
  \/ HandleSubmit
  \/ OpenUrl
  \/ FetchSessionData
  \/ FetchLiveSessionData
  \/ FetchReviewData
  \/ GoNew

ClassicNext ==
  \/ HandleSubmit \/ FetchSessionData \/ TypeAnswer \/ TimeUp \/ ExtendTime
  \/ ClickSubmit \/ ModalSubmit \/ CompleteEvaluate \/ CompleteAnswer
  \/ ClickNext \/ ClickPrev \/ CompleteNav \/ ClickFinish \/ CompleteFinish \/ GoNew

(***************************************************************************)
(* The live controller's transcript (LiveSession).  A text is a sequence   *)
(* of characters.                                                          *)
(***************************************************************************)
\* a transcription chunk has at most this many characters
MaxChunkLen == 1

\* at most this many server messages are handled
MaxMessages == 3
\* longest audio chunk, in ticks of the audio clock
MaxDuration == 2
\* the audio clock runs to this time
MaxClock == 2

Chars == {"a", " "}

Texts == UNION {[1..n -> Chars] : n \in 0..MaxChunkLen}

Speakers == {"ai", "user"}

\* text.trim() is a non-empty string
TrimIsNonEmpty(text) == \E i \in 1..Len(text) : text[i] # " "

\* the updater passed to setTranscript for a chunk of the given speaker
AppendChunkAlwaysPush(prev, speaker, text) ==
  IF Len(prev) > 0 /\ prev[Len(prev)].speaker = speaker
  THEN [prev EXCEPT ![Len(prev)].text = @ \o text]
  ELSE Append(prev, Entry(speaker, text))

AppendChunk(prev, speaker, text) ==
  IF Len(prev) > 0 /\ prev[Len(prev)].speaker = speaker
  THEN [prev EXCEPT ![Len(prev)].text = @ \o text]
  ELSE IF TrimIsNonEmpty(text)
       THEN Append(prev, Entry(speaker, text))
       ELSE prev

\* serverContent of a LiveServerMessage: either transcription may be present
LiveMessages ==
  UNION {[F -> Texts] : F \in (SUBSET {"outputTranscription", "inputTranscription"}) \ {{}}}

Chunk(speaker, text, before, after) ==
  [speaker |-> speaker, text |-> text, before |-> before, after |-> after]

\* serverContent with audio (modelTurn.parts[0].inlineData, a chunk of the
\* given duration) and the interrupted flag
AudioMessages ==
  {[audio |-> d] : d \in 1..MaxDuration}
    \cup {[interrupted |-> TRUE], [audio |-> 1, interrupted |-> TRUE],
          [audio |-> 1, outputTranscription |-> <<"a">>]}

Max(a, b) == IF a >= b THEN a ELSE b

\* the part of onmessage behind the audio: the output transcription is
\* handled before the input one, then the interrupted flag
AfterAudio(m, startTime, nodes, log) ==
  LET hasOut == "outputTranscription" \in DOMAIN m
      hasIn == "inputTranscription" \in DOMAIN m
      t1 == IF hasOut
            THEN AppendChunk(transcript, "ai", m["outputTranscription"])
            ELSE transcript
      t2 == IF hasIn THEN AppendChunk(t1, "user", m["inputTranscription"]) ELSE t1
  IN  /\ transcript' = t2
      /\ applied' =
           (IF hasOut
            THEN <<Chunk("ai", m["outputTranscription"], transcript, t1)>>
            ELSE <<>>)
             \o (IF hasIn
                 THEN <<Chunk("user", m["inputTranscription"], t1, t2)>>
                 ELSE <<>>)
      /\ IF "interrupted" \in DOMAIN m
         THEN /\ sources' = {}
              /\ nextStartTime' = 0
              /\ audioLog' = Append(log, [event |-> "interrupted"])
         ELSE /\ sources' = nodes
              /\ nextStartTime' = startTime
              /\ audioLog' = log

\* onmessage: a message with audio runs to await decodeAudioData(...) and is
\* suspended there; a message without audio is handled in one piece
OnMessage(messages) ==
  \E m \in messages :
    /\ nmsg < MaxMessages
    /\ nmsg' = nmsg + 1
    /\ IF "audio" \in DOMAIN m
       THEN /\ nextStartTime' = Max(nextStartTime, currentTime)
            /\ decoding' = Append(decoding, [n |-> nmsg + 1, message |-> m])
            /\ audioLog' = Append(audioLog, [event |-> "arrived", n |-> nmsg + 1])
            /\ UNCHANGED <<transcript, applied, sources>>
       ELSE /\ AfterAudio(m, nextStartTime, sources, audioLog)
            /\ UNCHANGED decoding
    /\ UNCHANGED currentTime
    /\ UNCHANGED <<serverVars, clientVars, apiVars, controlVars, authVars, handlerVars>>

\* decodeAudioData has no await of its own: its promise is settled when it
\* returns, so the suspended handlers resume in the order they suspended
ResumeLast(queue) == Len(queue)

ResumeIndex(queue) == 1

\* the handler behind the await: the source node is started at
\* nextStartTimeRef.current, which then moves on by the chunk's duration
Resume ==
  /\ decoding # <<>>
  /\ LET k == ResumeIndex(decoding)
         h == decoding[k]
         node == [n |-> h.n, at |-> nextStartTime, duration |-> h.message.audio]
     IN  /\ decoding' = SubSeq(decoding, 1, k - 1) \o SubSeq(decoding, k + 1, Len(decoding))
         /\ AfterAudio(h.message, nextStartTime + h.message.audio, sources \cup {node},
                       Append(audioLog, Merge(node, [event |-> "started"])))
  /\ UNCHANGED <<nmsg, currentTime>>
  /\ UNCHANGED <<serverVars, clientVars, apiVars, controlVars, authVars, handlerVars>>

\* the clock of the audio context advances
Tick ==
  /\ currentTime < MaxClock
  /\ currentTime' = currentTime + 1
  /\ UNCHANGED <<transcript, applied, nmsg, nextStartTime, sources, decoding, audioLog>>
  /\ UNCHANGED <<serverVars, clientVars, apiVars, controlVars, authVars, handlerVars>>

\* the 'ended' listener of a source node that has played to its end
SourceEnded ==
  \E node \in sources :
    /\ node.at + node.duration <= currentTime
    /\ sources' = sources \ {node}
    /\ UNCHANGED <<transcript, applied, nmsg, nextStartTime, currentTime, decoding, audioLog>>
    /\ UNCHANGED <<serverVars, clientVars, apiVars, controlVars, authVars, handlerVars>>

LiveNext == OnMessage(LiveMessages)

AudioNext == OnMessage(AudioMessages) \/ Resume \/ Tick \/ SourceEnded

(***************************************************************************)
(* The live controller's status (pages/LiveSession.tsx): the handlers of   *)
(* its buttons, of the live connection and of its awaits.                  *)
(***************************************************************************)
\* an await of the instance that is mounted settles
Settles(op) == op \in awaiting /\ page = "live" /\ ~op.stale

\* requestPermissions, up to await getUserMedia(...); "Allow Access" is
\* rendered while the status is idle
RequestPermissions ==
  /\ page = "live"
  /\ status = "idle"
  /\ status' = "requesting"
  /\ awaiting' = awaiting \cup {[kind |-> "permissions", stale |-> FALSE]}
  /\ UNCHANGED <<isConfirmingEndSession, connected>>
  /\ UNCHANGED <<serverVars, clientVars, liveVars, apiVars, authVars, handlerVars>>

\* getUserMedia settles: granted or refused
PermissionsSettled ==
  \E op \in awaiting, granted \in BOOLEAN :
    /\ op.kind = "permissions"
    /\ awaiting' = awaiting \ {op}
    /\ status' = IF Settles(op) THEN (IF granted THEN "ready" ELSE "error") ELSE status
    /\ UNCHANGED <<isConfirmingEndSession, connected>>
    /\ UNCHANGED <<serverVars, clientVars, liveVars, apiVars, authVars, handlerVars>>

\* handleStartSession; "Start Interview" is rendered while the status is
\* ready.  Without VITE_API_KEY the status set last is 'error' and no
\* connection is opened
HandleStartSession ==
  \E hasKey \in BOOLEAN :
    /\ page = "live"
    /\ status = "ready"
    /\ IsSome(session)
    /\ status' = IF hasKey THEN "active" ELSE "error"
    /\ connected' = hasKey
    /\ UNCHANGED <<isConfirmingEndSession, awaiting>>
    /\ UNCHANGED <<serverVars, clientVars, liveVars, apiVars, authVars, handlerVars>>

\* the connection's onmessage callback
ControlMessages == {[outputTranscription |-> <<"a">>]}

ReceiveMessage == page = "live" /\ connected /\ OnMessage(ControlMessages)

\* the connection's onerror callback: setError, setStatus('error'), cleanup()
OnError ==
  /\ page = "live"
  /\ connected
  /\ status' = "error"
  /\ connected' = FALSE
  /\ UNCHANGED <<isConfirmingEndSession, awaiting>>
  /\ UNCHANGED <<serverVars, clientVars, liveVars, apiVars, authVars, handlerVars>>

\* the review is rendered in place of the page and its dialog
ReviewShown == status = "review" /\ IsSome(session)

\* setIsConfirmingEndSession: "End Session" is rendered while the status is
\* active, "Cancel" while the dialog is shown
SetIsConfirmingEndSession ==
  \E value \in BOOLEAN :
    /\ page = "live"
    /\ ~ReviewShown
    /\ IF value THEN status = "active" ELSE isConfirmingEndSession
    /\ isConfirmingEndSession' = value
    /\ UNCHANGED <<status, connected, awaiting>>
    /\ UNCHANGED <<serverVars, clientVars, liveVars, apiVars, authVars, handlerVars>>

\* "Yes, End Session": the dialog closes and handleEndSession runs up to its
\* await, with the transcript and the session it read
HandleEndSession ==
  /\ page = "live"
  /\ ~ReviewShown
  /\ isConfirmingEndSession
  /\ isConfirmingEndSession' = FALSE
  /\ IF session = None
     THEN UNCHANGED <<status, connected, awaiting>>
     ELSE /\ status' = "ending"
          /\ connected' = FALSE
          /\ awaiting' = awaiting \cup
               {[kind |-> "end", stale |-> FALSE, id |-> routeId,
                 session |-> The(session), finalTranscript |-> transcript]}
  /\ UNCHANGED <<serverVars, clientVars, liveVars, apiVars, authVars, handlerVars>>

\* handleEndSession behind its await: finishApiSession(id, finalTranscript)
\* or, for a guest, generateLiveSessionReview(...) and saveGuestSession(...)
CompleteEndSession ==
  \E op \in awaiting, outcome \in ReviewOutcomes :
    /\ op.kind = "end"
    /\ awaiting' = awaiting \ {op}
    /\ LET body == [transcript |-> JArray(op.finalTranscript)]
           r == PostFinish(store, user, op.id, body, outcome)
           g == GenerateLiveSessionReview(body.transcript, outcome)
           ok == IF user # "none" THEN r.status = 200 ELSE g.ok
           finishedSession ==
             IF user # "none"
             THEN r.body
             ELSE Merge(op.session,
                        [status |-> "completed", transcript |-> body.transcript,
                         liveSessionFeedback |-> g.feedback])
       IN  /\ store' = IF user # "none" THEN r.store ELSE store
           /\ guest' = IF user = "none" /\ ok THEN SaveGuestSession(guest, finishedSession, TRUE)
                       ELSE guest
           /\ IF Settles(op)
              THEN IF ok
                   THEN /\ session' = Some(finishedSession)
                        /\ transcript' = IF "transcript" \in DOMAIN finishedSession
                                         THEN finishedSession.transcript.v
                                         ELSE <<>>
                        /\ status' = "review"
                   ELSE /\ status' = "error"
                        /\ UNCHANGED <<session, transcript>>
              ELSE UNCHANGED <<session, transcript, status>>
    /\ UNCHANGED <<isConfirmingEndSession, connected>>
    /\ UNCHANGED <<user, page, routeId, answer, isLoading, isTimeUp, inflight, created,
                   lastEvent, submitted>>
    /\ UNCHANGED <<req, resp, nreq, applied, nmsg, nextStartTime, currentTime, sources,
                   decoding, audioLog, apiVars, authVars, handlerVars>>

ControlNext ==
  \/ HandleSubmit
  \/ FetchLiveSessionData
  \/ RequestPermissions
  \/ PermissionsSettled
  \/ HandleStartSession
  \/ ReceiveMessage
  \/ OnError
  \/ SetIsConfirmingEndSession
  \/ HandleEndSession
  \/ CompleteEndSession
  \/ GoNew

(***************************************************************************)
(* The AuthProvider (hooks/useAuth.tsx) and the "save progress" button of  *)
(* the review page.  While loading is true the provider renders the        *)
(* "Authenticating..." screen in place of the pages.                       *)
(***************************************************************************)
\* what guest storage may hold when the visitor returns: nothing, or a
\* session completed on an earlier visit
StoredBefore == {None} \cup {Some(GuestSession(GuestId, mode)) : mode \in Modes}

\* clearTimeout(authTimeout)
ClearTimeoutKeeps(timer) == timer

ClearTimeout(timer) == IF timer = "pending" THEN "cleared" ELSE timer

\* the pages are replaced by the "Authenticating..." screen: they unmount
Unmounts(isLoading_) == IF isLoading_ THEN None ELSE session

\* the timer's callback: the loading it reads is the one of the first
\* render, which is true
AuthTimeout ==
  /\ authTimeout = "pending"
  /\ authTimeout' = "fired"
  /\ loading' = FALSE
  /\ UNCHANGED <<popup, sessionToSave, importing, imports, ncallbacks, nsaves>>
  /\ UNCHANGED <<serverVars, clientVars, liveVars, apiVars, controlVars, handlerVars>>

\* localStorage.removeItem('sessionToSaveAfterLogin'), behind getItem
RemoveItemKeeps(item) == item

RemoveItem(item) == None

\* the onAuthStateChanged callback, up to await importSession(...) or to
\* its end
OnAuthStateChanged ==
  \E currentUser \in {"none", "u1"} :
    /\ ncallbacks < MaxCallbacks
    /\ ncallbacks' = ncallbacks + 1
    /\ authTimeout' = ClearTimeout(authTimeout)
    /\ user' = currentUser
    /\ IF currentUser # "none" /\ IsSome(sessionToSave)
       THEN /\ sessionToSave' = RemoveItem(sessionToSave)
            /\ importing' = importing \cup
                 {[callback |-> ncallbacks + 1, user |-> currentUser,
                   entry |-> The(sessionToSave)]}
            /\ imports' = Append(imports, The(sessionToSave).n)
            /\ loading' = loading
       ELSE /\ loading' = FALSE
            /\ UNCHANGED <<sessionToSave, importing, imports>>
    /\ UNCHANGED <<popup, nsaves>>
    /\ UNCHANGED <<page, routeId, guest, session, answer, isLoading, isTimeUp, inflight,
                   created, lastEvent, submitted>>
    /\ UNCHANGED <<serverVars, liveVars, apiVars, controlVars, handlerVars>>

\* importSession(sessionToSave) settles: the request was served, or no
\* response arrived; the callback logs a failure and ends
ImportSettled ==
  \E op \in importing, arrived \in BOOLEAN :
    /\ importing' = importing \ {op}
    /\ store' = IF arrived THEN PostImport(store, op.user, op.entry.session).store
                           ELSE store
    /\ loading' = FALSE
    /\ UNCHANGED <<authTimeout, popup, sessionToSave, imports, ncallbacks, nsaves>>
    /\ UNCHANGED <<req, resp, nreq, clientVars, liveVars, apiVars, controlVars, handlerVars>>

\* handleSignInWithGoogle, up to await signInWithPopup(...)
HandleSignInWithGoogle ==
  /\ ~loading
  /\ ~popup
  /\ loading' = TRUE
  /\ popup' = TRUE
  /\ session' = Unmounts(TRUE)
  /\ UNCHANGED <<authTimeout, sessionToSave, importing, imports, ncallbacks, nsaves>>
  /\ UNCHANGED <<user, page, routeId, guest, answer, isLoading, isTimeUp, inflight,
                 created, lastEvent, submitted>>
  /\ UNCHANGED <<serverVars, liveVars, apiVars, controlVars, handlerVars>>

\* signInWithPopup settles: on success the listener takes over, on failure
\* (the visitor closed the popup) loading is turned off
PopupSettled ==
  \E signedIn \in BOOLEAN :
    /\ popup
    /\ popup' = FALSE
    /\ loading' = IF signedIn THEN loading ELSE FALSE
    /\ UNCHANGED <<authTimeout, sessionToSave, importing, imports, ncallbacks, nsaves>>
    /\ UNCHANGED <<serverVars, clientVars, liveVars, apiVars, controlVars, handlerVars>>

\* Review.handleSaveProgress; the button is rendered for a guest on the
\* review of a completed session
HandleSaveProgress ==
  /\ ~loading
  /\ page = "review" /\ IsSome(session)
  /\ user = "none"
  /\ The(session).status = "completed"
  /\ nsaves < MaxSaves
  /\ nsaves' = nsaves + 1
  /\ sessionToSave' = Some([n |-> nsaves + 1, session |-> JsonRoundTrip(The(session))])
  /\ loading' = TRUE
  /\ popup' = TRUE
  /\ session' = Unmounts(TRUE)
  /\ UNCHANGED <<authTimeout, importing, imports, ncallbacks>>
  /\ UNCHANGED <<user, page, routeId, guest, answer, isLoading, isTimeUp, inflight,
                 created, lastEvent, submitted>>
  /\ UNCHANGED <<serverVars, liveVars, apiVars, controlVars, handlerVars>>

\* the pages, rendered while loading is false
AuthPages == ~loading /\ (OpenUrl \/ FetchReviewData)

AuthNext ==
  \/ AuthTimeout
  \/ OnAuthStateChanged
  \/ ImportSettled
  \/ HandleSignInWithGoogle
  \/ PopupSettled
  \/ HandleSaveProgress
  \/ AuthPages

(***************************************************************************)
(* The API client of the browser (services/apiService.ts, and the variant  *)
(* of it in part_001).  A call resolves with a value or throws an Error:   *)
(* [ok, value] or [ok, error, typeError].                                  *)
(***************************************************************************)
Resolve(value) == [ok |-> TRUE, value |-> value]
Throw(message, typeError) == [ok |-> FALSE, error |-> message, typeError |-> typeError]

API_NOT_FOUND == "API endpoint not found (Error 404)."
AUTH_FAILED == "Authentication failed. Your session may have expired. Please sign in again."
SERVER_ERROR == "A server error occurred. We're working on fixing it! Please try again later."
NETWORK_ERROR == "Network Error: Could not connect to the backend."

\* response.ok
IsOk(code) == code \in 200..299

\* what fetch() yields: a response, or a TypeError when no response arrived
Fetched(response) == [failed |-> FALSE, response |-> response]
FetchFailed(message) == [failed |-> TRUE, message |-> message]

\* error.message of the TypeError, as the browsers word it
FetchFailureMessages ==
  {"Failed to fetch", "Load failed", "NetworkError when attempting to fetch resource."}

\* handleResponse (apiService.ts)
HandleResponse(response) ==
  IF ~IsOk(response.status)
  THEN IF response.status = 404 THEN Throw(API_NOT_FOUND, FALSE)
       ELSE IF response.status \in {401, 403} THEN Throw(AUTH_FAILED, FALSE)
       ELSE IF response.status >= 500 THEN Throw(SERVER_ERROR, FALSE)
       ELSE Throw(response.body.message, FALSE)
  ELSE Resolve(response.body)

\* fetchWithHandling (apiService.ts): the catch takes the errors of fetch and
\* of handleResponse alike
FetchWithHandling(fetched) ==
  LET r == IF fetched.failed
           THEN Throw(fetched.message, TRUE)
           ELSE HandleResponse(fetched.response)
  IN  IF r.ok THEN r
      ELSE IF r.error = API_NOT_FOUND THEN r
      ELSE Throw(NETWORK_ERROR, FALSE)

\* handleResponse (part_001): the message of the server's JSON body
HandleResponseAlt(response) ==
  IF ~IsOk(response.status)
  THEN Throw(response.body.message, FALSE)
  ELSE Resolve(response.body)

\* fetchWithHandling (part_001)
FetchWithHandlingAlt(fetched) ==
  LET r == IF fetched.failed
           THEN Throw(fetched.message, TRUE)
           ELSE HandleResponseAlt(fetched.response)
  IN  IF r.ok THEN r
      ELSE IF r.typeError /\ r.error = "Failed to fetch" THEN Throw(NETWORK_ERROR, FALSE)
      ELSE r

Receive(fetched) ==
  /\ apiResult' = Some([n |-> nreq, fetched |-> fetched,
                        result |-> FetchWithHandling(fetched),
                        resultAlt |-> FetchWithHandlingAlt(fetched)])
  /\ UNCHANGED <<serverVars, clientVars, liveVars, controlVars, authVars, handlerVars>>

\* the response to the request served last reaches the client
Deliver ==
  /\ req.op \notin {"none", "health"}
  /\ IF apiResult = None THEN TRUE ELSE The(apiResult).n # nreq
  /\ Receive(Fetched([status |-> resp.status, body |-> resp.body]))

\* the backend is not reachable: the request is not served
Unreachable ==
  \E message \in FetchFailureMessages :
    /\ nreq < MaxRequests
    /\ Receive(FetchFailed(message))

ApiNext == ServerNext \/ Deliver \/ Unreachable

(***************************************************************************)
(* The store adapter called on its own (firestoreService.js): each         *)
(* operation takes the userId its caller passes, which may be absent       *)
(* (None for undefined, Some("") for the empty string).                    *)
(***************************************************************************)
USER_ID_REQUIRED == "User ID is required to access user-specific data."

\* !userId
NoUserId(userId) == IF userId = None THEN TRUE ELSE The(userId) = ""

\* getUserSessionsCollection(userId) is the first statement of every
\* operation: it throws before the store is touched
WithCollectionUndefinedOnly(st, userId, result) ==
  IF userId = None
  THEN [ok |-> FALSE, error |-> USER_ID_REQUIRED, store |-> st]
  ELSE IF The(userId) = ""
  THEN [ok |-> FALSE, error |-> "Value for argument documentPath is not a valid resource path.",
        store |-> st]
  ELSE result

WithCollection(st, userId, result) ==
  IF NoUserId(userId)
  THEN [ok |-> FALSE, error |-> USER_ID_REQUIRED, store |-> st]
  ELSE result

Resolved(st, value) == [ok |-> TRUE, store |-> st, value |-> value]

UserIdArgs == {None, Some("")} \cup {Some(u) : u \in Users}

\* sessionData of createSession, as POST /sessions builds it
StoreCreateData ==
  {[mode |-> "live", createdAt |-> t, status |-> "in-progress"] : t \in 1..MaxTime}

\* sessionData of importSession: a body with an id and status 'completed'
StoreImportData ==
  {[id |-> id, mode |-> "live", createdAt |-> t, status |-> "completed"] :
     id \in {GuestId, DocIdPool[1]}, t \in 1..MaxTime}
    \cup {[id |-> GuestId, mode |-> "live", status |-> "completed"]}

\* updateData of updateSession
StoreUpdateData ==
  {[status |-> "completed"], [createdAt |-> MaxTime], [currentQuestionIndex |-> 1]}

Call(r, request) ==
  /\ nreq < MaxCalls
  /\ nreq' = nreq + 1
  /\ store' = r.store
  /\ resp' = IF r.ok THEN [ok |-> TRUE, value |-> r.value]
                     ELSE [ok |-> FALSE, error |-> r.error]
  /\ req' = request
  /\ UNCHANGED <<clientVars, liveVars, apiVars, controlVars, authVars, handlerVars>>

CallCreateSession ==
  \E userId \in UserIdArgs, sessionData \in StoreCreateData :
    /\ CanGenerateId(store)
    /\ Call(WithCollection(store, userId,
               LET r == CreateSession(store, The(userId), sessionData)
               IN  Resolved(r.store, r.doc)),
            [op |-> "create", userId |-> userId, data |-> sessionData])

CallGetSessions ==
  \E userId \in UserIdArgs :
    Call(WithCollection(store, userId, Resolved(store, GetSessions(store, The(userId)))),
         [op |-> "list", userId |-> userId])

CallGetSession ==
  \E userId \in UserIdArgs, id \in AllIds :
    Call(WithCollection(store, userId,
           Resolved(store, IF Exists(store, The(userId), id)
                           THEN GetSession(store, The(userId), id)
                           ELSE JNull)),
         [op |-> "get", userId |-> userId, id |-> id])

\* the API calls updateSession for a session it has read
CallUpdateSession ==
  \E userId \in UserIdArgs, id \in AllIds, updateData \in StoreUpdateData :
    /\ IF NoUserId(userId) THEN TRUE ELSE Exists(store, The(userId), id)
    /\ Call(WithCollection(store, userId,
               LET r == UpdateSession(store, The(userId), id, updateData)
               IN  Resolved(r.store, r.doc)),
            [op |-> "update", userId |-> userId, id |-> id, data |-> updateData])

CallImportSession ==
  \E userId \in UserIdArgs, sessionData \in StoreImportData :
    Call(WithCollection(store, userId,
           LET r == ImportSession(store, The(userId), sessionData)
           IN  Resolved(r.store, r.doc)),
         [op |-> "import", userId |-> userId, data |-> sessionData])

StoreNext ==
  \/ CallCreateSession
  \/ CallGetSessions
  \/ CallGetSession
  \/ CallUpdateSession
  \/ CallImportSession

(***************************************************************************)
(* POST /sessions/:id/answer, handler by handler (index.js).  The handler  *)
(* waits at await getSession, at await evaluateAnswer and at await         *)
(* updateSession; other handlers run while it waits.  Each step below is   *)
(* the code from one await to the next, and the reply when the handler     *)
(* returns.                                                                *)
(***************************************************************************)
\* res.status(...).json(...) of a handler h, which is then over
Respond(h, r) ==
  /\ nreq < MaxRequests
  /\ nreq' = nreq + 1
  /\ store' = r.store
  /\ resp' = [status |-> r.status, body |-> r.body, modelCalled |-> r.modelCalled]
  /\ req' = [op |-> "answer", userId |-> h.userId, id |-> h.id,
             questionIndex |-> h.questionIndex]
  /\ answering' = answering \ {h}
  /\ answered' = IF r.status = 200
                 THEN answered \cup {[userId |-> h.userId, id |-> h.id,
                                      questionIndex |-> h.questionIndex]}
                 ELSE answered
  /\ UNCHANGED <<clientVars, liveVars, apiVars, controlVars, authVars>>

\* getSession has returned: the 404, the TypeError and the 400 are replied
\* at once (PostAnswer replies them before the model is called), otherwise
\* the handler holds the session it read and awaits evaluateAnswer
AnswerRead ==
  \E userId \in Users, id \in AllIds, questionIndex \in 0..MaxQuestions :
    LET h == [userId |-> userId, id |-> id, questionIndex |-> questionIndex]
        early == PostAnswer(store, userId, id, questionIndex, "answer", [ok |-> FALSE])
    IN  /\ \A other \in answering :
             <<other.userId, other.id, other.questionIndex>> # <<userId, id, questionIndex>>
        /\ Cardinality(answering) < MaxHandlers
        /\ nreq + Cardinality(answering) < MaxRequests
        /\ IF ~early.modelCalled
           THEN Respond(h, early)
           ELSE /\ answering' =
                     answering \cup {Merge(h, [session |-> GetSession(store, userId, id)])}
                /\ UNCHANGED <<serverVars, answered, clientVars, liveVars, apiVars,
                               controlVars, authVars>>

\* evaluateAnswer has settled: a failure is replied with 500, otherwise the
\* handler computes updatedQuestions from the session it read and awaits
\* updateSession
AnswerEvaluated ==
  \E h \in answering, outcome \in EvaluateAnswerOutcomes :
    /\ "updatedQuestions" \notin DOMAIN h
    /\ IF ~outcome.ok
       THEN Respond(h, Reply(store, 500,
                             Message("Failed to evaluate the answer from Gemini."), TRUE))
       ELSE LET question == h.session.questions[h.questionIndex + 1]
                updatedQuestions ==
                  [h.session.questions EXCEPT ![h.questionIndex + 1] =
                     Merge(question, [userAnswer |-> "answer",
                                      feedback |-> outcome.feedback])]
            IN  /\ answering' =
                     (answering \ {h})
                       \cup {Merge(h, [updatedQuestions |-> updatedQuestions])}
                /\ UNCHANGED <<serverVars, answered, clientVars, liveVars, apiVars,
                               controlVars, authVars>>

\* updateSession({ questions: updatedQuestions }) has written and read back,
\* and the document is replied
AnswerWritten ==
  \E h \in answering :
    /\ "updatedQuestions" \in DOMAIN h
    /\ LET r == UpdateSession(store, h.userId, h.id, [questions |-> h.updatedQuestions])
       IN  Respond(h, Reply(r.store, 200, r.doc, TRUE))

HandlerNext ==
  \/ AnswerRead
  \/ AnswerEvaluated
  \/ AnswerWritten

\* the stores after one classic session was created for a user
CreatedBefore ==
  {PostSessions(EmptyStore, userId, body, outcome, 1).store :
     userId \in Users,
     body \in {b \in CreateBodies : DOMAIN b = DOMAIN [jobTitle |-> 0, company |-> 0,
                 jobDescription |-> 0, persona |-> 0, resumeText |-> 0, mode |-> 0]
                 /\ b.mode = "classic"},
     outcome \in {o \in GenerateQuestionsOutcomes : o.ok}}

\* the state of a deployment and a freshly loaded page; who is the visitor:
\* a guest ("none") or a signed-in user; what the browser's guest storage
\* and the document database hold
InitStored(visitors, items, stores) ==
  /\ store \in stores
  /\ req = [op |-> "none"]
  /\ resp = [status |-> 0, body |-> EmptyObject, modelCalled |-> FALSE]
  /\ nreq = 0
  /\ page = "new"
  /\ routeId = "none"
  /\ guest \in items
  /\ session = None
  /\ answer = ""
  /\ isLoading = FALSE
  /\ isTimeUp = FALSE
  /\ inflight = {}
  /\ created = 0
  /\ lastEvent = Event("init")
  /\ submitted = EmptyObject
  /\ transcript = <<>>
  /\ applied = <<>>
  /\ nmsg = 0
  /\ nextStartTime = 0
  /\ currentTime = 0
  /\ sources = {}
  /\ decoding = <<>>
  /\ audioLog = <<>>
  /\ apiResult = None
  /\ status = "loading"
  /\ isConfirmingEndSession = FALSE
  /\ connected = FALSE
  /\ awaiting = {}
  /\ loading = TRUE
  /\ authTimeout = "pending"
  /\ popup = FALSE
  /\ sessionToSave = None
  /\ importing = {}
  /\ imports = <<>>
  /\ ncallbacks = 0
  /\ nsaves = 0
  /\ answering = {}
  /\ answered = {}
  /\ user \in visitors

\* a fresh deployment: the guest storage and the database are empty
Init(visitors) == InitStored(visitors, {None}, {EmptyStore})

(***************************************************************************)
(* Specifications.                                                         *)
(***************************************************************************)
\* the API surface, served to any authenticated client
Spec ==
  /\ Init({"none"})
  /\ [][ServerNext]_vars

\* the classic controller of a guest or of the signed-in user u1
SpecClassic ==
  /\ Init({"none", "u1"})
  /\ [][ClassicNext]_vars

\* the session pages, opened by a guest or by the signed-in user u1
SpecPages ==
  /\ Init({"none", "u1"})
  /\ [][PagesNext]_vars

\* the API client and the API surface
SpecApi ==
  /\ Init({"none"})
  /\ [][ApiNext]_vars

\* the store adapter, called with any userId
SpecStore ==
  /\ Init({"none"})
  /\ [][StoreNext]_vars

\* the live controller's playback of the audio of server messages
SpecAudio ==
  /\ Init({"none"})
  /\ [][AudioNext]_vars

\* the AuthProvider and the pages it renders for a visitor
SpecAuth ==
  /\ InitStored({"none"}, StoredBefore, {EmptyStore})
  /\ [][AuthNext]_vars

\* the same, with the browser firing the timer when it is due
SpecAuthFair ==
  /\ SpecAuth
  /\ WF_vars(AuthTimeout)

\* guest storage, written by any caller
SpecGuest ==
  /\ Init({"none"})
  /\ [][GuestNext]_vars

\* the live controller's status, for a guest or the signed-in user u1
SpecControl ==
  /\ Init({"none", "u1"})
  /\ [][ControlNext]_vars

\* the live controller's handling of server messages
SpecLive ==
  /\ Init({"none"})
  /\ [][LiveNext]_vars

(***************************************************************************)
(* Properties of the API surface, checked under Spec.                      *)
(***************************************************************************)
AllDocs == {<<u, id>> : u \in Users, id \in AllIds}

\* C1: the stored status of a session changes only from 'in-progress' to
\* 'completed': a session that is stored as completed stays completed
\* whatever operation is served next.
C1_StatusOnlyForward ==
  [][\A d \in AllDocs :
       (Exists(store, d[1], d[2]) /\ store[d[1]][d[2]].status = "completed")
         => (Exists(store', d[1], d[2]) /\ store'[d[1]][d[2]].status = "completed")]_vars

\* C2: in every reachable state every stored classic session has
\* 0 <= currentQuestionIndex < questions.length.
C2_IndexWithinQuestions ==
  \A d \in AllDocs :
    (/\ Exists(store, d[1], d[2])
     /\ store[d[1]][d[2]].mode = "classic"
     /\ "questions" \in DOMAIN store[d[1]][d[2]])
      => /\ 0 <= store[d[1]][d[2]].currentQuestionIndex
         /\ store[d[1]][d[2]].currentQuestionIndex < Len(store[d[1]][d[2]].questions)

\* C5: a successful import for user U stores, under the id of the submitted
\* session, a document whose id is that id and whose userId is U, whatever
\* userId was submitted; every other submitted field is stored unchanged and
\* no field is added; the response is the stored document.
C5_ImportKeepsIdSetsOwner ==
  (req.op = "import" /\ resp.status = 201)
    => /\ Exists(store, req.userId, req.body.id)
       /\ LET doc == store[req.userId][req.body.id] IN
          /\ DOMAIN doc = DOMAIN req.body \cup {"userId"}
          /\ doc.id = req.body.id
          /\ doc.userId = req.userId
          /\ \A f \in DOMAIN req.body \ {"userId"} : doc[f] = req.body[f]
          /\ resp.body = doc

\* C5 witness: an import succeeded for a session that carried another
\* user's userId.
C5_Witness ==
  /\ req.op = "import"
  /\ resp.status = 201
  /\ "userId" \in DOMAIN req.body
  /\ req.body.userId # req.userId
  /\ store[req.userId][req.body.id].userId = req.userId

\* C7: every successfully created classic session has exactly 10 questions,
\* currentQuestionIndex = 0 and status 'in-progress'.
C7_CreatedClassicHasTenQuestions ==
  (req.op = "create" /\ resp.status = 201 /\ resp.body.mode = "classic")
    => /\ Len(resp.body.questions) = RequestedQuestions
       /\ resp.body.currentQuestionIndex = 0
       /\ resp.body.status = "in-progress"

\* C9: finishing an existing live session with an empty or absent transcript
\* never calls the model, answers with the fixed 'session was empty' review,
\* and leaves the session stored as completed.
C9_EmptyTranscriptFinish ==
  (/\ req.op = "finish"
   /\ Exists(store, req.userId, req.id)
   /\ store[req.userId][req.id].mode = "live"
   /\ TranscriptIsEmpty(Field(req.body, "transcript")))
    => /\ ~resp.modelCalled
       /\ resp.status = 200
       /\ resp.body.liveSessionFeedback = EmptyReview
       /\ store[req.userId][req.id].status = "completed"
       /\ store[req.userId][req.id].liveSessionFeedback = EmptyReview

\* C10: the mode a session was created with is never changed by a later
\* operation on that session.
C10_ModeImmutable ==
  [][\A d \in AllDocs :
       (Exists(store, d[1], d[2]) /\ Exists(store', d[1], d[2]))
         => store'[d[1]][d[2]].mode = store[d[1]][d[2]].mode]_vars

\* C12: every request to a route under /api is verified on its own: with a
\* token that verifies the handler runs for the token's user, whatever was
\* served before; with a missing or invalid token the response is 401, the
\* hosted model is not called and the store is unchanged.  GET /health
\* answers 200 OK for every token and leaves the store alone.
C12_VerifiedOnEveryRequest ==
  [][/\ req'.op = "health" =>
          /\ resp'.status = 200
          /\ resp'.body = "OK"
          /\ store' = store
     /\ req'.op # "health" =>
          IF VerifyIdToken(req'.token).ok
          THEN /\ req'.op # "rejected"
               /\ req'.userId = req'.token.uid
               /\ resp'.status # 401
          ELSE /\ req'.op = "rejected"
               /\ resp'.status = 401
               /\ resp'.body = Message("Unauthorized")
               /\ ~resp'.modelCalled
               /\ store' = store]_vars

\* a request without a valid token was rejected right after a request of a
\* signed-in user had stored a session
C12_Witness ==
  /\ req.op = "rejected"
  /\ resp.status = 401
  /\ store # EmptyStore

\* C14: updateSession changes only the fields named in updateData: every
\* other field of the stored document keeps its value, no field disappears,
\* every other document stays as it was, and the record returned is the
\* document as stored after the merge.
C14_UpdateChangesNamedFieldsOnly ==
  [][(req'.op = "update" /\ resp'.ok) =>
       LET u == The(req'.userId)
           old == store[u][req'.id]
           new == store'[u][req'.id]
       IN  /\ DOMAIN new = DOMAIN old \cup DOMAIN req'.data
           /\ \A f \in DOMAIN old \ DOMAIN req'.data : new[f] = old[f]
           /\ resp'.value = new
           /\ \A d \in AllDocs \ {<<u, req'.id>>} :
                 /\ Exists(store', d[1], d[2]) <=> Exists(store, d[1], d[2])
                 /\ Exists(store, d[1], d[2]) => store'[d[1]][d[2]] = store[d[1]][d[2]]]_vars

\* an update of the status of a stored session returned the session with
\* the new status beside the fields it had
C14_Witness ==
  /\ req.op = "update"
  /\ resp.ok
  /\ "status" \in DOMAIN req.data
  /\ resp.value.status = "completed"
  /\ {"id", "userId", "mode"} \subseteq DOMAIN resp.value
  /\ store[The(req.userId)][req.id] = resp.value

\* a.createdAt >= b.createdAt
CreatedAtGeq(a, b) ==
  /\ "createdAt" \in DOMAIN a
  /\ "createdAt" \in DOMAIN b
  /\ a.createdAt >= b.createdAt

\* C15: getSessions returns every session of the user's collection exactly
\* once and nothing else, each result at or after its successor in
\* createdAt, and the empty list when the collection is empty.
C15_ListAllOrderedByCreatedAt ==
  (req.op = "list" /\ resp.ok) =>
    LET u == The(req.userId)
        l == resp.value
    IN  /\ Len(l) = Cardinality(DOMAIN store[u])
        /\ \A id \in DOMAIN store[u] : \E i \in 1..Len(l) : l[i] = store[u][id]
        /\ \A i \in 1..(Len(l) - 1) : CreatedAtGeq(l[i], l[i + 1])
        /\ DOMAIN store[u] = {} => l = <<>>

\* C16: an operation of the store adapter called without a userId fails
\* with the user-id-required error and leaves the store as it was; called
\* with a userId it does not fail.
C16_UserIdRequired ==
  [][req'.op \in {"create", "get", "list", "update", "import"} =>
       IF NoUserId(req'.userId)
       THEN /\ ~resp'.ok
            /\ resp'.error = USER_ID_REQUIRED
            /\ store' = store
       ELSE resp'.ok]_vars

\* importSession was called with the empty string for userId on a store
\* that holds a session, and failed
C16_Witness ==
  /\ req.op = "import"
  /\ req.userId = Some("")
  /\ ~resp.ok
  /\ store # EmptyStore

\* C17: a response with a status outside 2xx is never reported with the
\* 'Network Error' message and a fetch that failed always is, by the API
\* client and by its variant.
C17_NetworkErrorOnlyForFailedFetch ==
  apiResult # None =>
    LET a == The(apiResult)
        NetworkError(r) == ~r.ok /\ r.error = NETWORK_ERROR
    IN  /\ a.fetched.failed => NetworkError(a.result) /\ NetworkError(a.resultAlt)
        /\ (~a.fetched.failed /\ ~IsOk(a.fetched.response.status))
             => ~NetworkError(a.result) /\ ~NetworkError(a.resultAlt)

\* the diagnostic message of a recognized store failure
Diagnostic(fault) ==
  IF fault = "credentials" THEN CREDENTIALS_ERROR_MESSAGE ELSE INDEX_ERROR_MESSAGE

\* C18: a request that reaches the store while it fails with a credentials
\* error (any route) or a missing-index error (the list route) is answered
\* 500 with the diagnostic message, and the error the API client throws for
\* that response carries the diagnostic message.
C18_DiagnosticReachesUser ==
  (req.op = "fault" /\ req.reached /\ req.fault \in {"credentials", "index"}) =>
    /\ resp.status = 500
    /\ resp.body = Message(Diagnostic(req.fault))
    /\ \/ apiResult = None
       \/ The(apiResult).n # nreq
       \/ The(apiResult).fetched.failed
       \/ /\ ~The(apiResult).result.ok
          /\ The(apiResult).result.error = Diagnostic(req.fault)

\* C19: when the practice, live or review page loads with an id that does
\* not resolve, the page shown afterwards is the default route and no
\* session is loaded.
C19_UnresolvedIdRedirectsHome ==
  [][(/\ page \in {"session", "live", "review"}
      /\ session = None
      /\ ~Resolves(routeId)
      /\ lastEvent'.name = "loaded")
       => (page' = "home" /\ session' = None)]_vars

\* position in audioLog of the arrival of chunk n
Arrival(n) == CHOOSE k \in 1..Len(audioLog) :
                audioLog[k].event = "arrived" /\ audioLog[k].n = n

\* C20: for audio chunks c1 and c2 that arrived in this order and were both
\* started, with no interruption handled between the arrival of c1 and the
\* later of the two starts, c2 is started at or after c1's start time plus
\* c1's duration, however the arrivals and the resumptions of the suspended
\* handlers interleave.
C20_AudioPlayedInArrivalOrder ==
  \A i, j \in 1..Len(audioLog) :
    (/\ audioLog[i].event = "started"
     /\ audioLog[j].event = "started"
     /\ audioLog[i].n < audioLog[j].n
     /\ \A k \in (Arrival(audioLog[i].n) + 1)..(Max(i, j) - 1) :
          audioLog[k].event # "interrupted")
      => audioLog[j].at >= audioLog[i].at + audioLog[i].duration

\* the second chunk arrived while the first was being decoded, and was
\* started right behind the first
C20_Witness ==
  /\ Len(audioLog) >= 4
  /\ audioLog[1].event = "arrived"
  /\ audioLog[2].event = "arrived"
  /\ audioLog[3].event = "started"
  /\ audioLog[4].event = "started"
  /\ audioLog[3].n < audioLog[4].n
  /\ audioLog[4].at = audioLog[3].at + audioLog[3].duration

\* the requests a handler served for a signed-in user
Handled(request) == request.op \notin {"none", "rejected", "health"}

\* C13: a request served for user A leaves the collection of every other
\* user B as it was; get, update, answer and finish on an id that A has no
\* session for answer 404 (also when B has a session of that id); and every
\* session a request returns to A is a document of A's collection and of no
\* other user's.
C13_SessionsIsolatedPerUser ==
  [][Handled(req') =>
       LET A == req'.userId
           OfOthers == {store[B][id] : <<B, id>> \in {d \in AllDocs : d[1] # A /\ Exists(store, d[1], d[2])}}
           Returned == IF resp'.status \notin {200, 201} THEN {}
                       ELSE IF req'.op = "list"
                       THEN {resp'.body[i] : i \in 1..Len(resp'.body)}
                       ELSE {resp'.body}
       IN  /\ \A B \in Users \ {A} : store'[B] = store[B]
           /\ (req'.op \in {"get", "put", "answer", "finish"} /\ ~Exists(store, A, req'.id))
                 => resp'.status = 404 /\ store' = store
           /\ \A doc \in Returned :
                 /\ doc \notin OfOthers
                 /\ Exists(store', A, doc.id)
                 /\ store'[A][doc.id] = doc]_vars

\* user A named the id of a session of user B and was answered 404
C13_Witness ==
  /\ req.op \in {"get", "put", "answer", "finish"}
  /\ \E B \in Users \ {req.userId} : Exists(store, B, req.id)
  /\ ~Exists(store, req.userId, req.id)
  /\ resp.status = 404

\* C11: in every reachable state no stored session holds both averageScore
\* and liveSessionFeedback, and every session stored as completed holds
\* exactly one of them.
C11_ExactlyOneResult ==
  \A d \in AllDocs :
    Exists(store, d[1], d[2]) =>
      LET doc == store[d[1]][d[2]] IN
      /\ ~("averageScore" \in DOMAIN doc /\ "liveSessionFeedback" \in DOMAIN doc)
      /\ doc.status = "completed"
           => ("averageScore" \in DOMAIN doc \/ "liveSessionFeedback" \in DOMAIN doc)

(***************************************************************************)
(* Properties of the classic controller, checked under SpecClassic.        *)
(***************************************************************************)
\* the session as stored for the client: the user's document or the guest item
StoredSession(id) == IF user # "none" THEN store[user][id] ELSE The(guest)

\* C3: while a classic session is shown its currentQuestionIndex never
\* decreases, and a change of the current question never lands on a question
\* that has an answer.
C3_IndexNeverDecreases ==
  [][(/\ IsSome(session) /\ IsSome(session')
      /\ The(session').id = The(session).id)
       => /\ The(session').currentQuestionIndex >= The(session).currentQuestionIndex
          /\ The(session').currentQuestionIndex # The(session).currentQuestionIndex
               => ~HasAnswer(CurrentQuestion(The(session')))]_vars

RECURSIVE SumOver(_, _)
SumOver(f, S) ==
  IF S = {} THEN 0 ELSE LET x == CHOOSE y \in S : TRUE IN f[x] + SumOver(f, S \ {x})

\* the mean of the scores of the questions of session id answered so far, or 0
MeanSubmitted(id) ==
  IF id \in DOMAIN submitted /\ DOMAIN submitted[id] # {}
  THEN Quotient(SumOver(submitted[id], DOMAIN submitted[id]),
                Cardinality(DOMAIN submitted[id]))
  ELSE Zero

FinishedNow ==
  \/ lastEvent.name = "finishDone"
  \/ lastEvent.name = "submitDone" /\ lastEvent.last

\* C4: when a classic session has just been finished, by the signed-in user
\* or by a guest, the stored averageScore is the mean of the overall_score of
\* exactly the questions that were answered, and 0 when none was.
C4_AverageOverAnswered ==
  FinishedNow =>
    /\ StoredSession(lastEvent.id).status = "completed"
    /\ StoredSession(lastEvent.id).averageScore = MeanSubmitted(lastEvent.id)

\* C8: after a successful submission of an answer to question i the stored
\* question i holds that answer and a feedback with overall_score in [1,10],
\* and the stored currentQuestionIndex is i+1, or the session is completed
\* when i was the last question.
C8_SubmitStoresAnswerAndAdvances ==
  lastEvent.name = "submitDone" =>
    LET doc == StoredSession(lastEvent.id)
        q == doc.questions[lastEvent.index + 1]
    IN  /\ "userAnswer" \in DOMAIN q /\ q.userAnswer = lastEvent.answer
        /\ "feedback" \in DOMAIN q
        /\ q.feedback.overall_score \in MinScore..MaxScore
        /\ IF lastEvent.last
           THEN doc.status = "completed"
           ELSE doc.currentQuestionIndex = lastEvent.index + 1

(***************************************************************************)
(* Properties of the live transcript, checked under SpecLive.              *)
(***************************************************************************)
SameSpeaker(c) ==
  Len(c.before) > 0 /\ c.before[Len(c.before)].speaker = c.speaker

OtherSpeaker(c) ==
  Len(c.before) > 0 /\ c.before[Len(c.before)].speaker # c.speaker

\* the chunk was appended to the text of the last entry
Concatenated(c) ==
  /\ Len(c.after) = Len(c.before)
  /\ c.after[Len(c.after)] =
       Entry(c.speaker, c.before[Len(c.before)].text \o c.text)

\* the chunk became a new last entry
StartedEntry(c) ==
  /\ Len(c.after) = Len(c.before) + 1
  /\ c.after[Len(c.after)] = Entry(c.speaker, c.text)

\* the entries before the last one of the old transcript are kept in place
KeepsEarlier(c) ==
  /\ Len(c.after) >= Len(c.before)
  /\ \A i \in 1..(Len(c.before) - 1) : c.after[i] = c.before[i]

NoAdjacentSameSpeaker(t) ==
  \A i \in 1..(Len(t) - 1) : t[i].speaker # t[i + 1].speaker

\* C6 (as stated): a chunk of the last entry's speaker is appended to that
\* entry's text, a chunk from the other speaker starts a new entry, entries
\* are never reordered or removed, and no two adjacent entries have the same
\* speaker.
C6_ChunkAppendsOrStartsEntry ==
  /\ NoAdjacentSameSpeaker(transcript)
  /\ \A k \in 1..Len(applied) :
       LET c == applied[k] IN
       /\ KeepsEarlier(c)
       /\ SameSpeaker(c) => Concatenated(c)
       /\ OtherSpeaker(c) => StartedEntry(c)

\* C6 (amended): a chunk of the last entry's speaker is appended to that
\* entry's text; a chunk from the other speaker, or the first chunk, starts
\* a new entry when its text has a character that is not white space and is
\* dropped otherwise; entries are never reordered or removed, and no two
\* adjacent entries have the same speaker.
C6_ChunkAppendsOrStartsNonBlankEntry ==
  /\ NoAdjacentSameSpeaker(transcript)
  /\ \A k \in 1..Len(applied) :
       LET c == applied[k] IN
       /\ KeepsEarlier(c)
       /\ SameSpeaker(c) => Concatenated(c)
       /\ (~SameSpeaker(c) /\ TrimIsNonEmpty(c.text)) => StartedEntry(c)
       /\ (~SameSpeaker(c) /\ ~TrimIsNonEmpty(c.text)) => c.after = c.before

\* C6 witness: a white-space chunk of the other speaker was dropped after a
\* chunk had been appended to an entry and another had started one.
C6_Witness ==
  /\ Len(transcript) >= 2
  /\ \E k \in 1..Len(applied) :
       /\ OtherSpeaker(applied[k])
       /\ Len(applied[k].text) > 0
       /\ ~TrimIsNonEmpty(applied[k].text)
       /\ applied[k].after = applied[k].before
  /\ \E i \in 1..Len(transcript) : Len(transcript[i].text) > MaxChunkLen

\* C21: once the handler of an interruption message has run, no source is
\* pending and the next start time is 0, and no audio chunk whose message
\* arrived before the interruption is started afterwards, however the
\* message handlers interleave.
C21_InterruptionEmptiesPlayback ==
  /\ [][(/\ Len(audioLog') > Len(audioLog)
         /\ audioLog'[Len(audioLog')].event = "interrupted")
          => (sources' = {} /\ nextStartTime' = 0)]_vars
  /\ [](\A i, j \in 1..Len(audioLog) :
          (/\ i < j
           /\ audioLog[i].event = "interrupted"
           /\ audioLog[j].event = "started")
            => Arrival(audioLog[j].n) > i)

\* the order of the live controller's statuses
StatusOrder == <<"loading", "idle", "requesting", "ready", "active", "ending", "review">>

\* C22: while the live page is mounted its status changes only to the next
\* status of the order loading, idle, requesting, ready, active, ending,
\* review, or to error; so 'ending' is entered only from 'active' and
\* 'review' only from 'ending'; and a status of 'review' never changes.
C22_StatusFollowsOrder ==
  [][(page = "live" /\ page' = "live" /\ status' # status)
      => /\ status # "review"
         /\ \/ status' = "error"
            \/ \E k \in 1..(Len(StatusOrder) - 1) :
                 status = StatusOrder[k] /\ status' = StatusOrder[k + 1]]_vars

(***************************************************************************)
(* Properties of guest storage, checked under SpecGuest.                   *)
(***************************************************************************)
\* C23: after any sequence of saveGuestSession calls getGuestSession returns
\* exactly the argument of the most recent call: the last write wins, no
\* field of an earlier write survives, and saving a session with another id
\* discards the one stored before.
C23_LastWriteWins ==
  lastEvent.name = "saved" => GetGuestSession(guest) = Some(lastEvent.argument)

\* C23 (amended): after a saveGuestSession call whose setItem succeeded,
\* getGuestSession returns a session with exactly the fields of the call's
\* argument whose value is not undefined, each with the argument's value, so
\* no field of an earlier write survives and a session with another id
\* replaces the one stored before; after a call whose setItem threw,
\* getGuestSession returns what it returned before the call.
C23_LastSuccessfulWriteWins ==
  lastEvent.name = "saved" =>
    IF lastEvent.written
    THEN /\ IsSome(GetGuestSession(guest))
         /\ LET got == The(GetGuestSession(guest))
                arg == lastEvent.argument
            IN  /\ DOMAIN got \subseteq DOMAIN arg
                /\ \A f \in DOMAIN arg :
                     IF f \in DOMAIN got THEN got[f] = arg[f] ELSE arg[f] = Undefined
    ELSE GetGuestSession(guest) = lastEvent.before

\* C23 witness: a session with another id was written over a stored session
\* that had a review, and the review is gone
C23_Witness ==
  /\ lastEvent.name = "saved"
  /\ lastEvent.written
  /\ IsSome(lastEvent.before)
  /\ The(lastEvent.before).id # lastEvent.argument.id
  /\ "liveSessionFeedback" \in DOMAIN The(lastEvent.before)
  /\ "liveSessionFeedback" \notin DOMAIN The(GetGuestSession(guest))
  /\ The(GetGuestSession(guest)).id = lastEvent.argument.id

\* the stored session has a question at the index
HasQuestionAt(st, userId, id, index) ==
  /\ "questions" \in DOMAIN st[userId][id]
  /\ index + 1 \in 1..Len(st[userId][id].questions)

\* the documents differ in the question at the index and in nothing else
OnlyQuestionDiffers(before, after, index) ==
  /\ DOMAIN after = DOMAIN before
  /\ \A f \in DOMAIN before \ {"questions"} : after[f] = before[f]
  /\ Len(after.questions) = Len(before.questions)
  /\ \A k \in 1..Len(before.questions) :
       k # index + 1 => after.questions[k] = before.questions[k]

\* C24: POST /sessions/:id/answer answers 404 for an unknown session and 400
\* for an index with no question, and answers 404, 400 or 500 (evaluation
\* failure) without changing the store; on success only the question at
\* questionIndex of the stored session differs from before.
C24_AnswerChangesOnlyOnSuccess ==
  [][req'.op = "answer" =>
       LET u == req'.userId
           id == req'.id
           i == req'.questionIndex
       IN  /\ resp'.status \in {200, 400, 404, 500}
           /\ ~Exists(store, u, id) => resp'.status = 404
           /\ (Exists(store, u, id) /\ ~HasQuestionAt(store, u, id, i))
                => resp'.status = 400
           /\ resp'.status # 200 => store' = store
           /\ resp'.status = 200 =>
                /\ HasQuestionAt(store, u, id, i)
                /\ \A d \in AllDocs :
                     d # <<u, id>> => (/\ Exists(store', d[1], d[2]) = Exists(store, d[1], d[2])
                                       /\ Exists(store, d[1], d[2])
                                            => store'[d[1]][d[2]] = store[d[1]][d[2]])
                /\ OnlyQuestionDiffers(store[u][id], store'[u][id], i)]_vars

(***************************************************************************)
(* Properties of the AuthProvider, checked under SpecAuth; the liveness    *)
(* part under SpecAuthFair.                                                *)
(***************************************************************************)
\* C25: if no auth-state callback is ever delivered, loading eventually
\* becomes false, because the timer fires; a callback that arrives while the
\* timer is pending cancels it, and the timer never fires after a callback.
C25_TimeoutEndsLoading ==
  /\ <>(ncallbacks > 0 \/ ~loading)
  /\ [][/\ (ncallbacks' > ncallbacks /\ authTimeout = "pending")
             => authTimeout' = "cleared"
        /\ authTimeout = "cleared" => authTimeout' = "cleared"
        /\ (authTimeout' = "fired" /\ authTimeout # "fired")
             => (ncallbacks' = 0 /\ ~loading')]_vars

\* C25 witness: the timer fired without any callback and a page is rendered
C25_Witness ==
  /\ authTimeout = "fired"
  /\ ncallbacks = 0
  /\ ~loading
  /\ page = "review"

\* C29: an entry stored for saving after login is sent to the import
\* endpoint at most once, however many auth-state callbacks report a
\* signed-in user: while its import is pending or after it has settled the
\* entry is no longer in storage, so a failed import is not retried.
C29_ImportedAtMostOnce ==
  /\ \A i, j \in 1..Len(imports) : imports[i] = imports[j] => i = j
  /\ \A k \in 1..Len(imports) :
       IsSome(sessionToSave) => The(sessionToSave).n # imports[k]

\* C29 witness: the only entry was sent once, its import failed, and a later
\* callback for the signed-in user found nothing to import
C29_Witness ==
  /\ nsaves = 1
  /\ imports = <<1>>
  /\ importing = {}
  /\ ncallbacks >= 2
  /\ user = "u1"
  /\ ~loading
  /\ store = EmptyStore

\* C26: on the guest path of a classic session every question that was
\* submitted successfully keeps its userAnswer and feedback in guest
\* storage, through the automatic advance or finish and every later write,
\* for as long as storage holds that session.
C26_GuestAnswersKept ==
  (user = "none" /\ IsSome(guest)) =>
    LET doc == The(GetGuestSession(guest)) IN
    \A i \in 0..(MaxQuestions - 1) :
      (doc.id \in DOMAIN submitted /\ i \in DOMAIN submitted[doc.id])
        => /\ "userAnswer" \in DOMAIN doc.questions[i + 1]
           /\ "feedback" \in DOMAIN doc.questions[i + 1]

\* C28: whenever the classic controller shows a session in progress whose
\* current question has no stored answer, and no evaluation is running, the
\* visitor who has typed an answer can submit it with a button of the page,
\* without waiting for the time's-up dialog; also on the last question.
C28_SubmitAlwaysOffered ==
  (/\ page = "session" /\ IsSome(session)
   /\ The(session).status = "in-progress"
   /\ ~HasAnswer(CurrentQuestion(The(session)))
   /\ ~isLoading
   /\ answer # ""
   /\ Cardinality(inflight) < MaxInflight)
    => ENABLED ClickSubmit

\* the body has a non-empty id and status 'completed'
Importable(body) ==
  /\ "id" \in DOMAIN body
  /\ body.id # ""
  /\ "status" \in DOMAIN body
  /\ body.status = "completed"

\* C30: POST /sessions/import stores a session only when the body has an id
\* and status 'completed'; for any other body it answers 400 and writes
\* nothing; the document an import creates has status 'completed'.
C30_ImportOnlyCompleted ==
  [][req'.op = "import" =>
       /\ ~Importable(req'.body) => (resp'.status = 400 /\ store' = store)
       /\ store' # store => (Importable(req'.body) /\ resp'.status = 201)
       /\ resp'.status = 201 =>
            /\ Exists(store', req'.userId, req'.body.id)
            /\ store'[req'.userId][req'.body.id].status = "completed"]_vars

\* C30 witness: a body with an id and status 'in-progress' was refused after
\* another import had stored a completed session
C30_Witness ==
  /\ req.op = "import"
  /\ resp.status = 400
  /\ "id" \in DOMAIN req.body
  /\ req.body.status = "in-progress"
  /\ \E d \in AllDocs : Exists(store, d[1], d[2]) /\ store[d[1]][d[2]].status = "completed"

\* the answer route with handlers that overlap, on a database that holds one
\* classic session
SpecHandlers ==
  /\ InitStored({"none"}, {None}, CreatedBefore)
  /\ [][HandlerNext]_vars

\* the stored session holds the answer and the feedback at questionIndex
HoldsAnswer(a) ==
  /\ Exists(store, a.userId, a.id)
  /\ LET q == store[a.userId][a.id].questions[a.questionIndex + 1]
     IN  "userAnswer" \in DOMAIN q /\ "feedback" \in DOMAIN q

\* C27: when two answer submissions for distinct question indexes of the
\* same session were both replied to with 200, the stored session holds the
\* answer and the feedback of both, however the reads, evaluations and
\* writes of their handlers were interleaved.
C27_BothAnswersStored ==
  \A a \in answered, b \in answered :
    (a.userId = b.userId /\ a.id = b.id /\ a.questionIndex # b.questionIndex)
      => HoldsAnswer(a) /\ HoldsAnswer(b)

====
